---- MODULE Spec2Model ----
(***************************************************************************)
(* SmartBuffer (src/src/index.ts): a growable byte store with a read       *)
(* cursor (roffset) and a write cursor (woffset).                          *)
(*                                                                         *)
(* A buffer object is the record                                           *)
(*   [buffer, roffset, woffset, noAssert]                                  *)
(* and a method call is an operator from the object (extended with the     *)
(* call's bookkeeping: fresh, err, ret) to the object after the call.      *)
(* A JavaScript throw does not roll anything back: the object returned     *)
(* with err # "none" carries every assignment made before the throw.       *)
(*                                                                         *)
(* Bytes are numbers 0..255; the store is a sequence, so the byte at       *)
(* JavaScript index i is buffer[i + 1].  32-bit quantities are kept as     *)
(* their signed 32-bit value, which is exactly the integer range of TLC.   *)
(***************************************************************************)
EXTENDS Integers, Sequences, FiniteSets, TLC

(***************************************************************************)
(* Bounds of the model.                                                    *)
(***************************************************************************)
\* API calls made on the buffer in one behaviour
MaxOps == 2
\* explicit offsets passed to the API are 0..MaxOffset
MaxOffset == 1
\* capacities passed to the constructor are 0..MaxInitCap
MaxInitCap == 1

(***************************************************************************)
(* Program constants.                                                      *)
(***************************************************************************)
MAX_VARINT32_BYTES == 5
METRICS_CHARS == "c"
METRICS_BYTES == "b"

(***************************************************************************)
(* JavaScript values that reach the API.                                   *)
(***************************************************************************)
Undefined == [t |-> "undefined"]
\* the number n
Num(n) == [t |-> "number", n |-> n, frac |-> FALSE]
\* the number n + 0.5 (not an integer)
Frac(n) == [t |-> "number", n |-> n, frac |-> TRUE]
\* a string, as the sequence of its code points
Str(s) == [t |-> "string", s |-> s]
\* a plain object that is neither a number, a string nor a Long
Obj == [t |-> "object"]
\* a Long: two signed 32-bit words and the signedness flag
Long(low, high, unsigned) == [t |-> "Long", low |-> low, high |-> high, unsigned |-> unsigned]

IsUndefined(x) == x.t = "undefined"
IsNumber(x) == x.t = "number"
\* typeof x === "number" && x % 1 === 0
IsInteger(x) == x.t = "number" /\ ~x.frac
_isString(x) == x.t = "string"

\* x | 0 and x >>> 0 on the values of the model: truncation towards zero for a
\* number, 0 for a value whose ToNumber is NaN.  Numbers of the model lie in
\* the signed 32-bit range; >>> 0 is applied to non-negative ones only.
ToInt32(x) ==
  IF x.t = "number" THEN (IF x.frac /\ x.n < 0 THEN x.n + 1 ELSE x.n) ELSE 0
ToUint32(x) == ToInt32(x)

Max(a, b) == IF a > b THEN a ELSE b
Min(a, b) == IF a < b THEN a ELSE b

(***************************************************************************)
(* The byte store.                                                         *)
(***************************************************************************)
\* the low 8 bits of v: what a Uint8Array element keeps of an assigned number
U8(v) == v % 256

\* this.buffer[i]: the byte, or undefined (here -1) outside the store
Byte(buf, i) == IF i >= 0 /\ i < Len(buf) THEN buf[i + 1] ELSE -1
\* this.buffer[i] used in a bitwise expression: undefined counts as 0
ByteOr0(buf, i) == IF i >= 0 /\ i < Len(buf) THEN buf[i + 1] ELSE 0

\* this.buffer[i] = v: an assignment outside the store is dropped
SetByte(buf, i, v) ==
  IF i >= 0 /\ i < Len(buf) THEN [buf EXCEPT ![i + 1] = U8(v)] ELSE buf

\* bytes[0..] stored from index i on
RECURSIVE SetBytes(_, _, _)
SetBytes(buf, i, bytes) ==
  IF bytes = <<>> THEN buf
  ELSE SetBytes(SetByte(buf, i, Head(bytes)), i + 1, Tail(bytes))

\* Buffer.allocUnsafe(n): n bytes of whatever the allocator hands out
allocUnsafe(n, fresh) == [i \in 1..n |-> fresh]

\* src.copy(dst, targetStart, sourceStart, sourceEnd) of node's Buffer
BufferCopy(srcBuf, dst, targetStart, sourceStart, sourceEnd) ==
  LET n == Max(0, Min(Min(sourceEnd, Len(srcBuf)) - sourceStart, Len(dst) - targetStart))
  IN [i \in 1..Len(dst) |->
        IF i - 1 >= targetStart /\ i - 1 < targetStart + n
        THEN srcBuf[sourceStart + (i - 1 - targetStart) + 1]
        ELSE dst[i]]

\* buf.slice(begin, end) as a sequence of bytes
Slice(buf, begin, end) ==
  LET b == Max(0, Min(begin, Len(buf)))
      e == Max(b, Min(end, Len(buf)))
  IN [i \in 1..(e - b) |-> buf[b + i]]

(***************************************************************************)
(* The object and the outcome of a call.                                   *)
(***************************************************************************)
\* new SmartBuffer(capacity, noAssert)
SmartBuffer(cap, noAssert, fresh) ==
  [buffer |-> allocUnsafe(cap, fresh), roffset |-> 0, woffset |-> 0,
   noAssert |-> noAssert]

\* the object entering a call; fresh is the content of memory allocated during it
\* other is the second SmartBuffer of the call (a source or a target), if any
Enter(bb, other, fresh) ==
  [buffer |-> bb.buffer, roffset |-> bb.roffset, woffset |-> bb.woffset,
   noAssert |-> bb.noAssert, other |-> other, fresh |-> fresh, err |-> "none",
   ret |-> Undefined]

\* the object's fields after the call
Fields(self) ==
  [buffer |-> self.buffer, roffset |-> self.roffset, woffset |-> self.woffset,
   noAssert |-> self.noAssert]

Throw(self, e) == [self EXCEPT !.err = e]
Return(self, v) == [self EXCEPT !.ret = v]
Ok(self) == self.err = "none"

\* get capacity() and get length()
getCapacity(self) == Len(self.buffer)
getLength(self) == self.woffset - self.roffset

(***************************************************************************)
(* Capacity.                                                               *)
(***************************************************************************)
\* resize(capacity): grows the store, never shrinks it
resize(self, cap) ==
  IF ~self.noAssert /\ ~IsInteger(cap) THEN Throw(self, "TypeError")
  ELSE IF ~self.noAssert /\ ToInt32(cap) < 0 THEN Throw(self, "TypeError")
  ELSE IF Len(self.buffer) < cap.n
       THEN [self EXCEPT !.buffer =
               BufferCopy(self.buffer, allocUnsafe(cap.n, self.fresh), 0, 0, Len(self.buffer))]
       ELSE self

\* an ensureCapacity that grows to the required capacity, never doubling
ensureCapacityExact(self, cap) ==
  LET current == Len(self.buffer)
  IN IF current < cap THEN resize(self, Num(cap)) ELSE self

\* ensureCapacity(capacity)
ensureCapacity(self, cap) ==
  LET current == Len(self.buffer)
  IN IF current < cap
     THEN resize(self, Num(IF current * 2 > cap THEN current * 2 ELSE cap))
     ELSE self

\* a growth step that resizes to the end of the write, never doubling
GrowToEnd(self, end) ==
  IF end > Len(self.buffer) THEN resize(self, Num(end)) ELSE self

\* the growth step every write inlines:
\*   if (offset > capacity) this.resize((capacity *= 2) > offset ? capacity : offset)
Grow(self, end) ==
  LET cap == Len(self.buffer)
  IN IF end > cap THEN resize(self, Num(IF cap * 2 > end THEN cap * 2 ELSE end)) ELSE self

(***************************************************************************)
(* _checkRead, _checkWrite, _checkWriteLong: ret is the offset to use.     *)
(***************************************************************************)
_checkRead(self, offset, bytes) ==
  LET relative == IsUndefined(offset)
      off == IF relative THEN Num(self.roffset) ELSE offset
      s1 == IF relative THEN [self EXCEPT !.roffset = @ + bytes] ELSE self
  IN IF ~s1.noAssert /\ ~IsInteger(off) THEN Throw(s1, "TypeError")
     ELSE IF ~s1.noAssert /\ (off.n < 0 \/ off.n + bytes > Len(s1.buffer))
          THEN Throw(s1, "RangeError")
          ELSE Return(s1, off.n)

\* a _checkWrite that advances woffset whether or not an offset is given
_checkWriteAdvancing(self, value, offset, bytes, isFloat) ==
  LET s1 == [self EXCEPT !.woffset = @ + bytes]
      result == IF IsUndefined(offset) THEN self.woffset ELSE ToUint32(offset)
  IN IF ~s1.noAssert /\ (~IsNumber(value) \/ (~isFloat /\ value.frac))
     THEN Throw(s1, "TypeError")
     ELSE IF ~s1.noAssert /\ (result < 0 \/ result + 0 > Len(s1.buffer))
          THEN Throw(s1, "RangeError")
          ELSE Return(Grow(s1, result + bytes), result)

_checkWrite(self, value, offset, bytes, isFloat) ==
  LET relative == IsUndefined(offset)
      s1 == IF relative THEN [self EXCEPT !.woffset = @ + bytes] ELSE self
      \* const result = offset >>>= 0: the offset is an integer from here on
      result == IF relative THEN self.woffset ELSE ToUint32(offset)
  IN IF ~s1.noAssert /\ (~IsNumber(value) \/ (~isFloat /\ value.frac))
     THEN Throw(s1, "TypeError")
     ELSE IF ~s1.noAssert /\ (result < 0 \/ result + 0 > Len(s1.buffer))
          THEN Throw(s1, "RangeError")
          ELSE Return(Grow(s1, result + bytes), result)

\* ret is <<value, offset>>; a number is converted with Long.fromNumber
_checkWriteLong(self, value, offset) ==
  LET relative == IsUndefined(offset)
      s1 == IF relative THEN [self EXCEPT !.woffset = @ + 8] ELSE self
      result == IF relative THEN self.woffset ELSE ToUint32(offset)
      long == IF value.t = "number"
              THEN Long(ToInt32(value), IF ToInt32(value) < 0 THEN -1 ELSE 0, FALSE)
              ELSE value
  IN IF ~s1.noAssert /\ value.t \notin {"number", "Long"}
     THEN Throw(s1, "TypeError")
     ELSE IF ~s1.noAssert /\ (result < 0 \/ result + 0 > Len(s1.buffer))
          THEN Throw(s1, "RangeError")
          ELSE Return(Grow(s1, result + 8), <<long, result>>)

(***************************************************************************)
(* Fixed-width integers and floats.                                        *)
(***************************************************************************)
This == [t |-> "this"]

\* the n low bytes of the 32-bit value v, least significant first (v >>> 8k)
LEBytes(v, n) == [k \in 1..n |-> (v \div (256 ^ (k - 1))) % 256]
\* the same bytes, most significant first
BEBytes(v, n) == [k \in 1..n |-> (v \div (256 ^ (n - k))) % 256]

\* the signed 32-bit value of four bytes b0 (low) .. b3 (high)
Int32Of(b0, b1, b2, b3) ==
  b0 + b1 * 256 + b2 * 65536 + (IF b3 >= 128 THEN b3 - 256 ELSE b3) * 16777216

\* the bytes a fixed-width writer stores at the offset _checkWrite returned
StoreAt(s, bytes) ==
  IF Ok(s) THEN Return([s EXCEPT !.buffer = SetBytes(@, s.ret, bytes)], This) ELSE s

writeInt8(self, value, offset) ==
  LET v == ToInt32(value) IN StoreAt(_checkWrite(self, Num(v), offset, 1, FALSE), LEBytes(v, 1))

writeUInt16BE(self, value, offset) ==
  LET v == ToUint32(value) IN StoreAt(_checkWrite(self, Num(v), offset, 2, FALSE), BEBytes(v, 2))

writeInt32LE(self, value, offset) ==
  LET v == ToInt32(value) IN StoreAt(_checkWrite(self, Num(v), offset, 4, FALSE), LEBytes(v, 4))

\* the IEEE-754 single of the numbers the model writes, most significant byte
\* first; a value that is not a number converts to NaN
IEEE754Single(value) ==
  IF ~IsNumber(value) THEN <<127, 192, 0, 0>>
  ELSE IF value = Num(0) THEN <<0, 0, 0, 0>>
  ELSE IF value = Num(1) THEN <<63, 128, 0, 0>>
  ELSE IF value = Frac(1) THEN <<63, 192, 0, 0>>
  ELSE IF value = Num(2) THEN <<64, 0, 0, 0>>
  ELSE <<127, 192, 0, 0>>

writeFloatBE(self, value, offset) ==
  StoreAt(_checkWrite(self, value, offset, 4, TRUE), IEEE754Single(value))

writeInt64LE(self, value, offset) ==
  LET s == _checkWriteLong(self, value, offset)
  IN IF ~Ok(s) THEN s
     ELSE Return([s EXCEPT !.buffer =
                    SetBytes(@, s.ret[2], LEBytes(s.ret[1].low, 4) \o LEBytes(s.ret[1].high, 4))],
                 This)

readInt8(self, offset) ==
  LET s == _checkRead(self, offset, 1)
      value == Byte(s.buffer, s.ret)
  IN IF ~Ok(s) THEN s
     ELSE IF value = -1 THEN Return(s, Undefined)
     ELSE Return(s, Num(IF value >= 128 THEN -(255 - value + 1) ELSE value))

readUInt16BE(self, offset) ==
  LET s == _checkRead(self, offset, 2)
  IN IF ~Ok(s) THEN s
     ELSE Return(s, Num(ByteOr0(s.buffer, s.ret) * 256 + ByteOr0(s.buffer, s.ret + 1)))

readInt32LE(self, offset) ==
  LET s == _checkRead(self, offset, 4)
  IN IF ~Ok(s) THEN s
     ELSE Return(s, Num(Int32Of(ByteOr0(s.buffer, s.ret), ByteOr0(s.buffer, s.ret + 1),
                                ByteOr0(s.buffer, s.ret + 2), ByteOr0(s.buffer, s.ret + 3))))

readInt64LE(self, offset) ==
  LET s == _checkRead(self, offset, 8)
      o == s.ret
  IN IF ~Ok(s) THEN s
     ELSE Return(s, Long(Int32Of(ByteOr0(s.buffer, o), ByteOr0(s.buffer, o + 1),
                                 ByteOr0(s.buffer, o + 2), ByteOr0(s.buffer, o + 3)),
                         Int32Of(ByteOr0(s.buffer, o + 4), ByteOr0(s.buffer, o + 5),
                                 ByteOr0(s.buffer, o + 6), ByteOr0(s.buffer, o + 7)),
                         FALSE))

(***************************************************************************)
(* 32-bit arithmetic on signed 32-bit values.  \div and % round towards    *)
(* minus infinity, so v % 2 and v \div 2 are the low bit and the           *)
(* arithmetic shift of the two's-complement form of v.                     *)
(***************************************************************************)
\* a ^ b
RECURSIVE Xor32(_, _)
Xor32(a, b) ==
  IF a \in {0, -1} /\ b \in {0, -1} THEN (IF a = b THEN 0 ELSE -1)
  ELSE (((a % 2) + (b % 2)) % 2) + 2 * Xor32(a \div 2, b \div 2)

\* a | b
RECURSIVE Or32(_, _)
Or32(a, b) ==
  IF a \in {0, -1} /\ b \in {0, -1} THEN (IF a = -1 \/ b = -1 THEN -1 ELSE 0)
  ELSE (IF a % 2 = 1 \/ b % 2 = 1 THEN 1 ELSE 0) + 2 * Or32(a \div 2, b \div 2)

\* a & b
RECURSIVE And32(_, _)
And32(a, b) ==
  IF a \in {0, -1} /\ b \in {0, -1} THEN (IF a = -1 /\ b = -1 THEN -1 ELSE 0)
  ELSE (IF a % 2 = 1 /\ b % 2 = 1 THEN 1 ELSE 0) + 2 * And32(a \div 2, b \div 2)

\* v << k, 0 <= k <= 31: the bit that becomes bit 31 is the sign of the result
Shl32(v, k) ==
  IF k = 0 THEN v
  ELSE LET m == 2 ^ (31 - k)
           low == (v % m) * (2 ^ k)
       IN IF (v \div m) % 2 = 1 THEN (low - 1073741824) - 1073741824 ELSE low

\* v >> k, 0 <= k <= 31 (2^31 itself is not a 32-bit value: divide in two steps)
Shr32(v, k) == IF k = 0 THEN v ELSE (v \div (2 ^ (k - 1))) \div 2

\* v >>> k, 1 <= k <= 31: the result is not negative
Shru32(v, k) ==
  IF v >= 0 THEN Shr32(v, k)
  ELSE Shr32((v + 1073741824) + 1073741824, k) + 2 ^ (31 - k)

\* (v >>> 0) < 2^k for k <= 30
ULess(v, k) == v >= 0 /\ v < 2 ^ k

(***************************************************************************)
(* The fixed-width integer accessors as one family.  A type is the record  *)
(* [name, bytes, signed, le]: writeInt16LE is the writer of                *)
(* [name |-> "Int16LE", bytes |-> 2, signed |-> TRUE, le |-> TRUE].        *)
(***************************************************************************)
IntType(name, bytes, signed, le) ==
  [name |-> name, bytes |-> bytes, signed |-> signed, le |-> le]

\* the number bits >>> 0: a number below 2^31 is itself, one from 2^31 on is
\* kept as its 32 bits with the field over set (its value is n + 2^32)
UNum(bits) ==
  IF bits >= 0 THEN Num(bits)
  ELSE [t |-> "number", n |-> bits, frac |-> FALSE, over |-> TRUE]

\* a reader that returns the assembled bytes without the cast to signed
NoSignCast(value, bits) == value

\* if ((value & 0x80) === 0x80) value = -(0xFF - value + 1), and the same
\* with 0x8000 and 0xFFFF
SignCast(value, bits) ==
  IF And32(value, 2 ^ (bits - 1)) = 2 ^ (bits - 1)
  THEN -(((2 ^ bits) - 1) - value + 1)
  ELSE value

\* write<name>(value, offset): value |= 0 or value >>>= 0, _checkWrite, the
\* stores of value >>> 8k; the 64-bit writers store value.low and value.high
\* after _checkWriteLong
WriteFixed(ty, self, value, offset) ==
  IF ty.bytes = 8
  THEN LET s == _checkWriteLong(self, value, offset)
           lo == s.ret[1].low
           hi == s.ret[1].high
       IN IF ~Ok(s) THEN s
          ELSE Return([s EXCEPT !.buffer =
                         SetBytes(@, s.ret[2],
                                  IF ty.le THEN LEBytes(lo, 4) \o LEBytes(hi, 4)
                                  ELSE BEBytes(hi, 4) \o BEBytes(lo, 4))],
                      This)
  ELSE LET v == IF ty.signed THEN ToInt32(value) ELSE ToUint32(value)
       IN StoreAt(_checkWrite(self, Num(v), offset, ty.bytes, FALSE),
                  IF ty.le THEN LEBytes(v, ty.bytes) ELSE BEBytes(v, ty.bytes))

\* read<name>(offset): _checkRead, the bytes assembled by shifts, the cast
ReadFixed(ty, self, offset) ==
  LET s == _checkRead(self, offset, ty.bytes)
      raw == [k \in 1..ty.bytes |-> ByteOr0(s.buffer, s.ret + k - 1)]
      \* least significant byte first
      b == IF ty.le THEN raw ELSE [k \in 1..ty.bytes |-> raw[ty.bytes + 1 - k]]
  IN IF ~Ok(s) THEN s
     ELSE IF ty.bytes = 1
     THEN IF Byte(s.buffer, s.ret) = -1 THEN Return(s, Undefined)
          ELSE Return(s, Num(IF ty.signed THEN SignCast(b[1], 8) ELSE b[1]))
     ELSE IF ty.bytes = 2
     THEN Return(s, Num(IF ty.signed THEN SignCast(b[1] + b[2] * 256, 16)
                        ELSE b[1] + b[2] * 256))
     ELSE IF ty.bytes = 3
     THEN Return(s, Num(b[1] + b[2] * 256 + b[3] * 65536))
     ELSE IF ty.bytes = 4
     THEN Return(s, IF ty.signed THEN Num(Int32Of(b[1], b[2], b[3], b[4]))
                    ELSE UNum(Int32Of(b[1], b[2], b[3], b[4])))
     ELSE Return(s, Long(Int32Of(b[1], b[2], b[3], b[4]), Int32Of(b[5], b[6], b[7], b[8]),
                         ~ty.signed))

(***************************************************************************)
(* Varint32 and zig-zag.                                                   *)
(***************************************************************************)
calculateVarint32(value) ==
  IF ULess(value, 7) THEN 1
  ELSE IF ULess(value, 14) THEN 2
  ELSE IF ULess(value, 21) THEN 3
  ELSE IF ULess(value, 28) THEN 4
  ELSE 5

zigZagEncode32(n) == Xor32(Shl32(n, 1), Shr32(n, 31))

\* a decoding that drops the sign bit instead of folding it back
zigZagDecode32Unsigned(n) == Shru32(n, 1)

zigZagDecode32(n) == Xor32(Shru32(n, 1), -And32(n, 1))

\* the bytes the loop of writeVarint32 stores for value >>> 0
RECURSIVE Varint32Bytes(_)
Varint32Bytes(value) ==
  IF value < 0 \/ value >= 128
  THEN <<Or32(And32(value, 127), 128)>> \o Varint32Bytes(Shru32(value, 7))
  ELSE <<value>>

\* ret: this (relative) or the number of bytes written
writeVarint32(self, value, offset) ==
  LET relative == IsUndefined(offset)
      off == IF relative THEN Num(self.woffset) ELSE offset
      o == ToUint32(off)
      v == ToInt32(value)
      size == calculateVarint32(v)
      s1 == Grow(self, o + size)
      s2 == [s1 EXCEPT !.buffer = SetBytes(@, o, Varint32Bytes(v))]
  IN IF ~self.noAssert /\ ~IsInteger(value) THEN Throw(self, "TypeError")
     ELSE IF ~self.noAssert /\ ~IsInteger(off) THEN Throw(self, "TypeError")
     ELSE IF ~self.noAssert /\ (o < 0 \/ o + 0 > Len(self.buffer)) THEN Throw(self, "RangeError")
     ELSE IF relative
          THEN Return([s2 EXCEPT !.woffset = o + Len(Varint32Bytes(v))], This)
          ELSE Return(s2, Num(size))

writeVarint32ZigZag(self, value, offset) ==
  writeVarint32(self, IF IsNumber(value) THEN Num(zigZagEncode32(ToInt32(value))) ELSE Num(0),
                offset)

\* the do-while loop of readVarint32: [err, offset, c, value] when it ends
RECURSIVE ReadVarint32Loop(_, _, _, _, _)
ReadVarint32Loop(buf, noAssert, offset, c, value) ==
  IF ~noAssert /\ offset > Len(buf)
  THEN [err |-> "Truncated", offset |-> offset, c |-> c, value |-> value]
  ELSE LET b == ByteOr0(buf, offset)
           v == IF c < 5 THEN Or32(value, Shl32(And32(b, 127), 7 * c)) ELSE value
       IN IF And32(b, 128) # 0
          THEN ReadVarint32Loop(buf, noAssert, offset + 1, c + 1, v)
          ELSE [err |-> "none", offset |-> offset + 1, c |-> c + 1, value |-> v]

\* ret: the value (relative) or [value, length]
readVarint32(self, offset) ==
  LET relative == IsUndefined(offset)
      off == IF relative THEN Num(self.roffset) ELSE offset
      o == ToUint32(off)
      r == ReadVarint32Loop(self.buffer, self.noAssert, o, 0, 0)
  IN IF ~self.noAssert /\ ~IsInteger(off) THEN Throw(self, "TypeError")
     ELSE IF ~self.noAssert /\ (o < 0 \/ o + 1 > Len(self.buffer)) THEN Throw(self, "RangeError")
     ELSE IF r.err # "none" THEN Throw(self, r.err)
     ELSE IF relative THEN Return([self EXCEPT !.roffset = r.offset], Num(r.value))
     ELSE Return(self, [value |-> r.value, length |-> r.c])

readVarint32ZigZag(self, offset) ==
  LET s == readVarint32(self, offset)
  IN IF ~Ok(s) THEN s
     ELSE IF IsUndefined(offset) THEN Return(s, Num(zigZagDecode32(s.ret.n)))
     ELSE Return(s, [value |-> zigZagDecode32(s.ret.value), length |-> s.ret.length])

(***************************************************************************)
(* UTF-8, as node's Buffer and utfx do it for code points below 0x10000.   *)
(***************************************************************************)
\* the UTF-8 bytes of one code point
UTF8Encode(cp) ==
  IF cp < 128 THEN <<cp>>
  ELSE IF cp < 2048 THEN <<192 + (cp \div 64), 128 + (cp % 64)>>
  ELSE <<224 + (cp \div 4096), 128 + ((cp \div 64) % 64), 128 + (cp % 64)>>

\* Buffer.from(str, "utf8"): the bytes of a string
RECURSIVE UTF8Bytes(_)
UTF8Bytes(str) == IF str = <<>> THEN <<>> ELSE UTF8Encode(Head(str)) \o UTF8Bytes(Tail(str))

\* Buffer.byteLength(str, "utf8")
byteLength(str) == Len(UTF8Bytes(str))

IsCont(b) == b >= 128 /\ b < 192

\* buf.toString("utf8"): an ill-formed byte decodes to U+FFFD
RECURSIVE UTF8ToString(_)
UTF8ToString(bytes) ==
  IF bytes = <<>> THEN <<>>
  ELSE LET a == bytes[1]
       IN IF a < 128 THEN <<a>> \o UTF8ToString(Tail(bytes))
          ELSE IF a >= 194 /\ a < 224 /\ Len(bytes) >= 2 /\ IsCont(bytes[2])
               THEN <<(a % 32) * 64 + (bytes[2] % 64)>> \o UTF8ToString(SubSeq(bytes, 3, Len(bytes)))
          ELSE IF a >= 224 /\ a < 240 /\ Len(bytes) >= 3 /\ IsCont(bytes[2]) /\ IsCont(bytes[3])
                  /\ (a % 16) * 4096 + (bytes[2] % 64) * 64 >= 2048
               THEN <<(a % 16) * 4096 + (bytes[2] % 64) * 64 + (bytes[3] % 64)>>
                    \o UTF8ToString(SubSeq(bytes, 4, Len(bytes)))
          ELSE <<65533>> \o UTF8ToString(Tail(bytes))

\* utfx.decodeUTF8 fed by readString's source, which hands out buffer[offset++]
\* while i < length and offset < buffer.length: [err, offset, i, str] at the end
RECURSIVE DecodeUTF8(_, _, _, _, _)
DecodeUTF8(buf, length, offset, i, str) ==
  LET have(n) == i < length /\ offset + n <= Len(buf)
      a == buf[offset + 1]
      b == buf[offset + 2]
      c == buf[offset + 3]
      stop(e, o) == [err |-> e, offset |-> o, i |-> i, str |-> str]
  IN IF ~have(1) THEN stop("none", offset)
     ELSE IF a < 128 THEN DecodeUTF8(buf, length, offset + 1, i + 1, Append(str, a))
     ELSE IF a >= 192 /\ a < 224
          THEN IF ~have(2) THEN stop("Error", offset + 1)
               ELSE DecodeUTF8(buf, length, offset + 2, i + 1,
                               Append(str, (a % 32) * 64 + (b % 64)))
     ELSE IF a >= 224 /\ a < 240
          THEN IF ~have(2) THEN stop("Error", offset + 1)
               ELSE IF ~have(3) THEN stop("Error", offset + 2)
               ELSE DecodeUTF8(buf, length, offset + 3, i + 1,
                               Append(str, (a % 16) * 4096 + (b % 64) * 64 + (c % 64)))
     ELSE IF a >= 240 /\ a < 248
          THEN IF ~have(4) THEN stop("Error", offset + Min(3, Len(buf) - offset))
               ELSE DecodeUTF8(buf, length, offset + 4, i + 1,
                               Append(str, (a % 8) * 262144 + (b % 64) * 4096 + (c % 64) * 64
                                           + (buf[offset + 4] % 64)))
     ELSE stop("RangeError", offset + 1)

(***************************************************************************)
(* Strings.                                                                *)
(***************************************************************************)
HasNul(str) == \E k \in 1..Len(str) : str[k] = 0

\* ret: this (relative) or k, the UTF-8 length of str
writeCString(self, str, offset) ==
  LET relative == IsUndefined(offset)
      off == IF relative THEN Num(self.woffset) ELSE offset
      o == ToUint32(off)
      k == byteLength(str.s)
      s1 == Grow(self, o + k + 1)
      s2 == [s1 EXCEPT !.buffer = SetByte(SetBytes(@, o, UTF8Bytes(str.s)), o + k, 0)]
  IN IF ~self.noAssert /\ ~_isString(str) THEN Throw(self, "TypeError")
     ELSE IF ~self.noAssert /\ HasNul(str.s) THEN Throw(self, "TypeError")
     ELSE IF ~self.noAssert /\ ~IsInteger(off) THEN Throw(self, "TypeError")
     ELSE IF ~self.noAssert /\ (o < 0 \/ o + 0 > Len(self.buffer)) THEN Throw(self, "RangeError")
     ELSE IF relative THEN Return([s2 EXCEPT !.woffset = o + k + 1], This)
     ELSE Return(s2, Num(k))

\* the scan of readCString: the offset after the NUL, or -1 when the store ends first
RECURSIVE ScanNul(_, _)
ScanNul(buf, offset) ==
  IF offset >= Len(buf) THEN -1
  ELSE IF buf[offset + 1] = 0 THEN offset + 1
  ELSE ScanNul(buf, offset + 1)

\* ret: the string (relative) or [string, length]
readCString(self, offset) ==
  LET relative == IsUndefined(offset)
      off == IF relative THEN Num(self.roffset) ELSE offset
      start == ToUint32(off)
      end == ScanNul(self.buffer, start)
      str == Str(UTF8ToString(Slice(self.buffer, start, end - 1)))
  IN IF ~self.noAssert /\ ~IsInteger(off) THEN Throw(self, "TypeError")
     ELSE IF ~self.noAssert /\ (start < 0 \/ start + 1 > Len(self.buffer))
          THEN Throw(self, "RangeError")
     ELSE IF end = -1 THEN Throw(self, "RangeError")
     ELSE IF relative THEN Return([self EXCEPT !.roffset = end], str)
     ELSE Return(self, [string |-> str, length |-> end - start])

\* ret: this (relative) or k
writeString(self, str, offset) ==
  LET relative == IsUndefined(offset)
      off == IF relative THEN Num(self.woffset) ELSE offset
      o == ToUint32(off)
      k == byteLength(str.s)
      s1 == Grow(self, o + k)
      s2 == [s1 EXCEPT !.buffer = SetBytes(@, o, UTF8Bytes(str.s))]
  IN IF ~self.noAssert /\ ~IsInteger(off) THEN Throw(self, "TypeError")
     ELSE IF ~self.noAssert /\ (o < 0 \/ o + 0 > Len(self.buffer)) THEN Throw(self, "RangeError")
     ELSE IF relative THEN Return([s2 EXCEPT !.woffset = o + k], This)
     ELSE Return(s2, Num(k))

\* ret: the string (relative) or [string, length]
readString(self, length, metrics, offset) ==
  LET relative == IsUndefined(offset)
      off == IF relative THEN Num(self.roffset) ELSE offset
      start == ToUint32(off)
      n == ToInt32(length)
      d == DecodeUTF8(self.buffer, n, start, 0, <<>>)
      \* offset + length, compared and clamped without leaving the 32-bit range
      beyond == n > Len(self.buffer) - start
      temp == Str(UTF8ToString(Slice(self.buffer, start,
                                     IF beyond THEN Len(self.buffer) ELSE start + n)))
  IN IF ~self.noAssert /\ ~IsInteger(length) THEN Throw(self, "TypeError")
     ELSE IF ~self.noAssert /\ ~IsInteger(off) THEN Throw(self, "TypeError")
     ELSE IF ~self.noAssert /\ (start < 0 \/ start + 0 > Len(self.buffer))
          THEN Throw(self, "RangeError")
     ELSE IF metrics = METRICS_CHARS
          THEN IF d.err # "none" THEN Throw(self, d.err)
               ELSE IF d.i # n THEN Throw(self, "RangeError")
               ELSE IF relative THEN Return([self EXCEPT !.roffset = d.offset], Str(d.str))
               ELSE Return(self, [string |-> Str(d.str), length |-> d.offset - start])
     ELSE IF metrics = METRICS_BYTES
          THEN IF ~self.noAssert /\ (start < 0 \/ beyond)
               THEN Throw(self, "RangeError")
               ELSE IF relative THEN Return([self EXCEPT !.roffset = @ + n], temp)
               ELSE Return(self, [string |-> temp, length |-> n])
     ELSE Throw(self, "TypeError")

\* ret: this (relative) or the number of bytes written
writeVString(self, str, offset) ==
  LET relative == IsUndefined(offset)
      off == IF relative THEN Num(self.woffset) ELSE offset
      start == ToUint32(off)
      k == byteLength(str.s)
      l == calculateVarint32(k)
      s1 == Grow(self, start + l + k)
      s2 == writeVarint32(s1, Num(k), Num(start))
      o2 == start + s2.ret.n
      s3 == [s2 EXCEPT !.buffer = SetBytes(@, o2, UTF8Bytes(str.s))]
  IN IF ~self.noAssert /\ ~_isString(str) THEN Throw(self, "TypeError")
     ELSE IF ~self.noAssert /\ ~IsInteger(off) THEN Throw(self, "TypeError")
     ELSE IF ~self.noAssert /\ (start < 0 \/ start + 0 > Len(self.buffer))
          THEN Throw(self, "RangeError")
     ELSE IF ~Ok(s2) THEN s2
     ELSE IF relative THEN Return([s3 EXCEPT !.woffset = o2 + k], This)
     ELSE Return(s3, Num(o2 + k - start))

\* ret: the string (relative) or [string, length]
readVString(self, offset) ==
  LET relative == IsUndefined(offset)
      off == IF relative THEN Num(self.roffset) ELSE offset
      start == ToUint32(off)
      len == readVarint32(self, Num(start))
      str == readString(len, Num(len.ret.value), METRICS_BYTES, Num(start + len.ret.length))
      end == start + len.ret.length + str.ret.length
  IN IF ~self.noAssert /\ ~IsInteger(off) THEN Throw(self, "TypeError")
     ELSE IF ~self.noAssert /\ (start < 0 \/ start + 1 > Len(self.buffer))
          THEN Throw(self, "RangeError")
     ELSE IF ~Ok(len) THEN len
     ELSE IF ~Ok(str) THEN str
     ELSE IF relative THEN Return([str EXCEPT !.roffset = end], str.ret.string)
     ELSE Return(str, [string |-> str.ret.string, length |-> end - start])

(***************************************************************************)
(* Bit sets.                                                               *)
(***************************************************************************)
Arr(a) == [t |-> "array", a |-> a]
\* ToInt32 of a boolean
B(x) == IF x THEN 1 ELSE 0

\* the byte writeBitSet packs from value[bit .. bit + 7] (bit counts from 0);
\* the second operand reads (value[bit++]) & 1 << 1 in the source
PackByte(a, bit) ==
  Or32(And32(B(a[bit + 1]), 1),
  Or32(And32(B(a[bit + 2]), Shl32(1, 1)),
  Or32(Shl32(And32(B(a[bit + 3]), 1), 2),
  Or32(Shl32(And32(B(a[bit + 4]), 1), 3),
  Or32(Shl32(And32(B(a[bit + 5]), 1), 4),
  Or32(Shl32(And32(B(a[bit + 6]), 1), 5),
  Or32(Shl32(And32(B(a[bit + 7]), 1), 6),
       Shl32(And32(B(a[bit + 8]), 1), 7))))))))

\* the byte packed from the last Len(a) - bit < 8 values
RECURSIVE PackRest(_, _, _, _)
PackRest(a, bit, m, k) ==
  IF bit < Len(a)
  THEN PackRest(a, bit + 1, m + 1, Or32(k, Shl32(And32(B(a[bit + 1]), 1), m)))
  ELSE k

\* while (bytes--) this.writeInt8(k, offset++), then the rest: the object after
\* the last writeInt8, ret the offset reached
RECURSIVE WriteBits(_, _, _, _, _)
WriteBits(s, a, bytes, bit, offset) ==
  IF ~Ok(s) THEN s
  ELSE IF bytes # 0
       THEN WriteBits(writeInt8(s, Num(PackByte(a, bit)), Num(offset)), a, bytes - 1,
                      bit + 8, offset + 1)
  ELSE IF bit < Len(a)
       THEN LET w == writeInt8(s, Num(PackRest(a, bit, 0, 0)), Num(offset))
            IN IF Ok(w) THEN Return(w, offset + 1) ELSE w
  ELSE Return(s, offset)

\* ret: this (relative) or the number of bytes written
writeBitSet(self, value, offset) ==
  LET relative == IsUndefined(offset)
      off == IF relative THEN Num(self.woffset) ELSE offset
      start == ToUint32(off)
      bits == Len(value.a)
      s1 == writeVarint32(self, Num(bits), Num(start))
      s2 == WriteBits(s1, value.a, Shr32(bits, 3), 0, start + s1.ret.n)
  IN IF ~self.noAssert /\ value.t # "array" THEN Throw(self, "TypeError")
     ELSE IF ~self.noAssert /\ ~IsInteger(off) THEN Throw(self, "TypeError")
     ELSE IF ~self.noAssert /\ (start < 0 \/ start + 0 > Len(self.buffer))
          THEN Throw(self, "RangeError")
     ELSE IF ~Ok(s1) THEN s1
     ELSE IF ~Ok(s2) THEN s2
     ELSE IF relative THEN Return([s2 EXCEPT !.woffset = s2.ret], This)
     ELSE Return(s2, Num(s2.ret - start))

\* the eight booleans readBitSet takes from the byte k (a signed 8-bit value)
UnpackByte(k) == [i \in 1..8 |-> And32(k, Shl32(1, i - 1)) # 0]

\* while (bytes--) k = this.readInt8(offset++) ..., then the rest: ret is
\* <<value, offset>>
RECURSIVE ReadBits(_, _, _, _, _)
ReadBits(s, bits, bytes, value, offset) ==
  IF ~Ok(s) THEN s
  ELSE IF bytes # 0
       THEN LET r == readInt8(s, Num(offset))
                k == ToInt32(r.ret)
            IN IF ~Ok(r) THEN r
               ELSE ReadBits(r, bits, bytes - 1, value \o UnpackByte(k), offset + 1)
  ELSE IF Len(value) < bits
       THEN LET r == readInt8(s, Num(offset))
                k == ToInt32(r.ret)
                n == bits - Len(value)
            IN IF ~Ok(r) THEN r
               ELSE Return(r, <<value \o [m \in 1..n |-> And32(Shr32(k, m - 1) , 1) # 0],
                                offset + 1>>)
  ELSE Return(s, <<value, offset>>)

\* ret: the array of booleans
readBitSet(self, offset) ==
  LET relative == IsUndefined(offset)
      off == IF relative THEN Num(self.roffset) ELSE offset
      r == readVarint32(self, off)
      bits == r.ret.value
      s2 == ReadBits(r, bits, Shr32(bits, 3), <<>>, off.n + r.ret.length)
  IN IF ~Ok(r) THEN r
     ELSE IF ~Ok(s2) THEN s2
     ELSE IF relative THEN Return([s2 EXCEPT !.roffset = s2.ret[2]], Arr(s2.ret[1]))
     ELSE Return(s2, Arr(s2.ret[1]))

(***************************************************************************)
(* Factories.                                                              *)
(***************************************************************************)
\* wrap(buffer, encoding, noAssert) of an array of octets
wrap(bytes, noAssert) ==
  [buffer |-> bytes, roffset |-> 0, woffset |-> Len(bytes), noAssert |-> noAssert]

\* fromUTF8(str, noAssert), which wrap(str) calls for a string
fromUTF8(str, noAssert) ==
  [buffer |-> UTF8Bytes(str), roffset |-> 0, woffset |-> byteLength(str),
   noAssert |-> noAssert]

\* buffers[i] instanceof SmartBuffer; the other elements of the model are
\* arrays of octets, which concat wraps
IsSmartBuffer(x) == "roffset" \in DOMAIN x

\* buffers[i] after the first loop of concat
Wrapped(x) == IF IsSmartBuffer(x) THEN x ELSE wrap(x.a, FALSE)

\* a capacity that adds every length, positive or not
RECURSIVE ConcatCapacitySigned(_)
ConcatCapacitySigned(buffers) ==
  IF buffers = <<>> THEN 0
  ELSE (Wrapped(Head(buffers)).woffset - Wrapped(Head(buffers)).roffset)
         + ConcatCapacitySigned(Tail(buffers))

\* the capacity the first loop of concat adds up
RECURSIVE ConcatCapacity(_)
ConcatCapacity(buffers) ==
  IF buffers = <<>> THEN 0
  ELSE LET length == Wrapped(Head(buffers)).woffset - Wrapped(Head(buffers)).roffset
       IN (IF length > 0 THEN length ELSE 0) + ConcatCapacity(Tail(buffers))

\* the second loop of concat: bb after the copies of the remaining buffers
RECURSIVE ConcatLoop(_, _)
ConcatLoop(res, buffers) ==
  IF buffers = <<>> THEN res
  ELSE LET bi == Wrapped(Head(buffers))
           length == bi.woffset - bi.roffset
       IN IF length <= 0 THEN ConcatLoop(res, Tail(buffers))
          ELSE ConcatLoop([res EXCEPT !.buffer = BufferCopy(bi.buffer, @, res.woffset,
                                                            bi.roffset, bi.woffset),
                                      !.woffset = @ + length],
                          Tail(buffers))

\* SmartBuffer.concat(buffers, noAssert): the new buffer
concat(buffers, noAssert, fresh) ==
  LET capacity == ConcatCapacity(buffers)
  IN IF capacity = 0 THEN SmartBuffer(0, noAssert, fresh)
     ELSE [ConcatLoop(SmartBuffer(capacity, noAssert, fresh), buffers) EXCEPT !.roffset = 0]

(***************************************************************************)
(* Bulk writes.  A source is a string, an object that cannot be wrapped,   *)
(* or Other: the second SmartBuffer of the call.                           *)
(***************************************************************************)
Other == [t |-> "SmartBuffer"]

\* a write that leaves the read cursor of a SmartBuffer source where it was
writeKeepingSource(self, source, offset) ==
  LET relative == IsUndefined(offset)
      \* const result = offset >>>= 0, before the checks
      result == IF relative THEN self.woffset ELSE ToUint32(offset)
      isString == _isString(source)
      src == self.other
      length == IF isString THEN byteLength(source.s) ELSE src.woffset - src.roffset
      s1 == Grow(self, result + length)
      s2 == IF isString
            THEN [s1 EXCEPT !.buffer = SetBytes(@, result, UTF8Bytes(source.s))]
            ELSE [s1 EXCEPT !.buffer = BufferCopy(src.buffer, @, result, src.roffset, src.woffset)]
  IN IF ~self.noAssert /\ (result < 0 \/ result + 0 > Len(self.buffer))
     THEN Throw(self, "RangeError")
     ELSE IF ~isString /\ source # Other THEN Throw(self, "TypeError")
     ELSE IF length <= 0 THEN Return(self, This)
     ELSE IF ~Ok(s1) THEN s1
     ELSE IF relative THEN Return([s2 EXCEPT !.woffset = @ + length], This)
     ELSE Return(s2, This)

\* write(source, offset): the length and encoding arguments are left out
write(self, source, offset) ==
  LET relative == IsUndefined(offset)
      \* const result = offset >>>= 0, before the checks
      result == IF relative THEN self.woffset ELSE ToUint32(offset)
      isString == _isString(source)
      src == self.other
      length == IF isString THEN byteLength(source.s) ELSE src.woffset - src.roffset
      s1 == Grow(self, result + length)
      s2 == IF isString
            THEN [s1 EXCEPT !.buffer = SetBytes(@, result, UTF8Bytes(source.s))]
            ELSE [s1 EXCEPT !.buffer = BufferCopy(src.buffer, @, result, src.roffset, src.woffset),
                            !.other.roffset = @ + length]
  IN IF ~self.noAssert /\ (result < 0 \/ result + 0 > Len(self.buffer))
     THEN Throw(self, "RangeError")
     ELSE IF ~isString /\ source # Other THEN Throw(self, "TypeError")
     ELSE IF length <= 0 THEN Return(self, This)
     ELSE IF ~Ok(s1) THEN s1
     ELSE IF relative THEN Return([s2 EXCEPT !.woffset = @ + length], This)
     ELSE Return(s2, This)

\* writeBuffer(buf, offset): buf is a sequence of bytes
writeBuffer(self, buf, offset) ==
  LET relative == IsUndefined(offset)
      off == IF relative THEN self.woffset ELSE offset.n
      targetEnd == off + Len(buf)
      s1 == Grow(self, targetEnd)
      s2 == [s1 EXCEPT !.buffer = BufferCopy(buf, @, off, 0, Len(buf))]
  IN IF Len(buf) = 0 THEN Return(self, This)
     ELSE IF ~Ok(s1) THEN s1
     ELSE IF relative THEN Return([s2 EXCEPT !.woffset = targetEnd], This)
     ELSE Return(s2, This)

\* fill(value, begin, end)
fill(self, value, begin, end) ==
  LET relative == IsUndefined(begin)
      bg == IF relative THEN Num(self.woffset) ELSE begin
      v == IF _isString(value) /\ Len(value.s) > 0 THEN Num(value.s[1]) ELSE value
      en == IF IsUndefined(end) THEN Num(Len(self.buffer)) ELSE end
      b == ToUint32(bg)
      e == ToUint32(en)
      s1 == [self EXCEPT !.buffer =
               [i \in 1..Len(@) |-> IF i - 1 >= b /\ i - 1 < e THEN U8(ToInt32(v)) ELSE @[i]]]
  IN IF ~self.noAssert /\ ~IsInteger(v) THEN Throw(self, "TypeError")
     ELSE IF ~self.noAssert /\ ~IsInteger(bg) THEN Throw(self, "TypeError")
     ELSE IF ~self.noAssert /\ ~IsInteger(en) THEN Throw(self, "TypeError")
     ELSE IF ~self.noAssert /\ (b < 0 \/ b > e \/ e > Len(self.buffer))
          THEN Throw(self, "RangeError")
     ELSE IF b >= e THEN Return(self, This)
     ELSE IF relative THEN Return([s1 EXCEPT !.woffset = e], This)
     ELSE Return(s1, This)

\* a prepend that makes room without moving the write cursor
prependKeepingWoffset(self, source, offset) ==
  LET relative == IsUndefined(offset)
      off == IF relative THEN Num(self.roffset) ELSE offset
      o == ToUint32(off)
      src == IF _isString(source) THEN fromUTF8(source.s, FALSE) ELSE self.other
      len == Len(src.buffer) - src.roffset
      diff == len - o
      \* not enough space before offset: a larger store, the old bytes from
      \* offset on moved to len, both cursors moved by diff
      s1 == IF diff > 0
            THEN [self EXCEPT !.buffer = BufferCopy(self.buffer,
                                                    allocUnsafe(Len(self.buffer) + diff, self.fresh),
                                                    len, o, Len(self.buffer)),
                              !.roffset = @ + diff]
            ELSE self
      o1 == IF diff > 0 THEN o + diff ELSE o
      s2 == [s1 EXCEPT !.buffer = BufferCopy(src.buffer, @, o1 - len, src.roffset, Len(src.buffer))]
      s3 == IF _isString(source) THEN s2 ELSE [s2 EXCEPT !.other.roffset = Len(src.buffer)]
  IN IF ~self.noAssert /\ ~IsInteger(off) THEN Throw(self, "TypeError")
     ELSE IF ~self.noAssert /\ (o < 0 \/ o + 0 > Len(self.buffer)) THEN Throw(self, "RangeError")
     ELSE IF ~_isString(source) /\ source # Other THEN Throw(self, "TypeError")
     ELSE IF len <= 0 THEN Return(self, This)
     ELSE IF relative THEN Return([s3 EXCEPT !.roffset = @ - len], This)
     ELSE Return(s3, This)

\* prepend(source, offset): a string source is wrapped with fromUTF8
prepend(self, source, offset) ==
  LET relative == IsUndefined(offset)
      off == IF relative THEN Num(self.roffset) ELSE offset
      o == ToUint32(off)
      src == IF _isString(source) THEN fromUTF8(source.s, FALSE) ELSE self.other
      len == Len(src.buffer) - src.roffset
      diff == len - o
      \* not enough space before offset: a larger store, the old bytes from
      \* offset on moved to len, both cursors moved by diff
      s1 == IF diff > 0
            THEN [self EXCEPT !.buffer = BufferCopy(self.buffer,
                                                    allocUnsafe(Len(self.buffer) + diff, self.fresh),
                                                    len, o, Len(self.buffer)),
                              !.roffset = @ + diff,
                              !.woffset = @ + diff]
            ELSE self
      o1 == IF diff > 0 THEN o + diff ELSE o
      s2 == [s1 EXCEPT !.buffer = BufferCopy(src.buffer, @, o1 - len, src.roffset, Len(src.buffer))]
      s3 == IF _isString(source) THEN s2 ELSE [s2 EXCEPT !.other.roffset = Len(src.buffer)]
  IN IF ~self.noAssert /\ ~IsInteger(off) THEN Throw(self, "TypeError")
     ELSE IF ~self.noAssert /\ (o < 0 \/ o + 0 > Len(self.buffer)) THEN Throw(self, "RangeError")
     ELSE IF ~_isString(source) /\ source # Other THEN Throw(self, "TypeError")
     ELSE IF len <= 0 THEN Return(self, This)
     ELSE IF relative THEN Return([s3 EXCEPT !.roffset = @ - len], This)
     ELSE Return(s3, This)

(***************************************************************************)
(* Cursors and structure.                                                  *)
(***************************************************************************)
\* reset(resetWOffset)
reset(self, resetWOffset) ==
  Return([self EXCEPT !.roffset = 0, !.woffset = IF resetWOffset THEN 0 ELSE @], This)

\* a skipRead that stops at the write cursor
skipReadToWoffset(self, length) ==
  LET offset == self.roffset + ToInt32(length)
  IN IF ~self.noAssert /\ ~IsInteger(length) THEN Throw(self, "TypeError")
     ELSE IF ~self.noAssert /\ (offset < 0 \/ offset > self.woffset)
          THEN Throw(self, "RangeError")
     ELSE Return([self EXCEPT !.roffset = offset], This)

\* skipRead(length)
skipRead(self, length) ==
  LET offset == self.roffset + ToInt32(length)
  IN IF ~self.noAssert /\ ~IsInteger(length) THEN Throw(self, "TypeError")
     ELSE IF ~self.noAssert /\ (offset < 0 \/ offset > Len(self.buffer))
          THEN Throw(self, "RangeError")
     ELSE Return([self EXCEPT !.roffset = offset], This)

\* skipWrite(length)
skipWrite(self, length) ==
  LET offset == self.woffset + ToInt32(length)
  IN IF ~self.noAssert /\ ~IsInteger(length) THEN Throw(self, "TypeError")
     ELSE IF ~self.noAssert /\ (offset < 0 \/ offset > Len(self.buffer))
          THEN Throw(self, "RangeError")
     ELSE Return([self EXCEPT !.woffset = offset], This)

\* compact(begin, end)
compact(self, begin, end) ==
  LET bg == IF IsUndefined(begin) THEN Num(self.roffset) ELSE begin
      en == IF IsUndefined(end) THEN Num(Len(self.buffer)) ELSE end
      b == ToUint32(bg)
      e == ToUint32(en)
      len == e - b
  IN IF ~self.noAssert /\ ~IsInteger(bg) THEN Throw(self, "TypeError")
     ELSE IF ~self.noAssert /\ ~IsInteger(en) THEN Throw(self, "TypeError")
     ELSE IF ~self.noAssert /\ (b < 0 \/ b > e \/ e > Len(self.buffer))
          THEN Throw(self, "RangeError")
     ELSE IF b = 0 /\ e = Len(self.buffer) THEN Return(self, This)
     ELSE IF len = 0
          THEN Return([self EXCEPT !.buffer = <<>>, !.roffset = 0, !.woffset = 0], This)
     ELSE Return([self EXCEPT !.buffer = BufferCopy(self.buffer, allocUnsafe(len, self.fresh),
                                                    0, b, e),
                              !.woffset = @ - self.roffset,
                              !.roffset = 0], This)

\* copyTo(target, targetOffset, sourceStart, sourceEnd): ret is the target when
\* there is nothing to copy, this otherwise
copyTo(self, target, targetOffset, sourceStart, sourceEnd) ==
  LET targetRelative == IsUndefined(targetOffset)
      relative == IsUndefined(sourceStart)
      tgt == self.other
      tOff == IF targetRelative THEN tgt.woffset ELSE ToInt32(targetOffset)
      sStart == IF relative THEN self.roffset ELSE ToInt32(sourceStart)
      sEnd == IF IsUndefined(sourceEnd) THEN self.woffset ELSE ToInt32(sourceEnd)
      len == sEnd - sStart
      \* target.ensureCapacity(targetOffset + len), with the target's noAssert
      grown == ensureCapacity(Enter(tgt, self, self.fresh), tOff + len)
      copied == BufferCopy(self.buffer, grown.buffer, tOff, sStart, sEnd)
      s1 == [self EXCEPT !.other = [tgt EXCEPT !.buffer = copied,
                                               !.woffset = IF targetRelative THEN @ + len ELSE @],
                         !.roffset = IF relative THEN @ + len ELSE @]
  IN IF ~self.noAssert /\ target # Other THEN Throw(self, "TypeError")
     ELSE IF tOff < 0 \/ tOff > Len(tgt.buffer) THEN Throw(self, "RangeError")
     ELSE IF sStart < 0 \/ sEnd > Len(self.buffer) THEN Throw(self, "RangeError")
     ELSE IF len = 0 THEN Return(self, Other)
     ELSE IF ~Ok(grown) THEN Throw(self, grown.err)
     ELSE Return(s1, This)

\* copy(begin, end); ret: the new SmartBuffer
copy(self, begin, end) ==
  LET bg == IF IsUndefined(begin) THEN Num(self.roffset) ELSE begin
      en == IF IsUndefined(end) THEN Num(self.woffset) ELSE end
      b == IF self.noAssert THEN bg.n ELSE ToUint32(bg)
      e == IF self.noAssert THEN en.n ELSE ToUint32(en)
      new == SmartBuffer(e - b, self.noAssert, self.fresh)
      r == copyTo([self EXCEPT !.other = new], Other, Num(0), Num(b), Num(e))
  IN IF ~self.noAssert /\ ~IsInteger(bg) THEN Throw(self, "TypeError")
     ELSE IF ~self.noAssert /\ ~IsInteger(en) THEN Throw(self, "TypeError")
     ELSE IF ~self.noAssert /\ (b < 0 \/ b > e \/ e > Len(self.buffer))
          THEN Throw(self, "RangeError")
     ELSE IF b = e THEN Return(self, SmartBuffer(0, self.noAssert, self.fresh))
     ELSE IF ~Ok(r) THEN Throw(self, r.err)
     ELSE Return([r EXCEPT !.other = self.other], r.other)

(***************************************************************************)
(* Views.  A node Buffer is a window on memory; buf.slice(begin, end) is a *)
(* window on the memory of buf.  The result of SmartBuffer.slice is kept   *)
(* as the window (base, len) on the store of the source while it shares    *)
(* that store (shared), and as its own bytes (copy) otherwise.             *)
(***************************************************************************)
\* a slice that copies the bytes instead of sharing them
BufferSliceCopy(buf, begin, end) ==
  LET lo == Max(0, Min(begin, Len(buf)))
      hi == Max(lo, Min(end, Len(buf)))
  IN [base |-> lo, len |-> hi - lo, shared |-> FALSE, copy |-> Slice(buf, lo, hi)]

\* this.buffer.slice(begin, end) for begin >= 0: both ends are clamped to the
\* store
BufferSlice(buf, begin, end) ==
  LET lo == Max(0, Min(begin, Len(buf)))
      hi == Max(lo, Min(end, Len(buf)))
  IN [base |-> lo, len |-> hi - lo, shared |-> TRUE, copy |-> <<>>]

\* the bytes a window shows when the store of its source is heap
ViewBytes(heap, view) ==
  IF view.shared THEN Slice(heap, view.base, view.base + view.len) ELSE view.copy

\* ret: the new SmartBuffer, its store a window; new SmartBuffer(end - begin)
\* is a checked construction and rejects a negative capacity
slice(self, begin, end) ==
  LET bg == IF IsUndefined(begin) THEN Num(self.roffset) ELSE begin
      en == IF IsUndefined(end) THEN Num(self.woffset) ELSE end
      b == ToUint32(bg)
      e == ToUint32(en)
      view == BufferSlice(self.buffer, b, e)
  IN IF ~self.noAssert /\ ~IsInteger(bg) THEN Throw(self, "TypeError")
     ELSE IF ~self.noAssert /\ ~IsInteger(en) THEN Throw(self, "TypeError")
     ELSE IF ~self.noAssert /\ (b < 0 \/ b > e \/ e > Len(self.buffer))
          THEN Throw(self, "RangeError")
     ELSE IF e - b < 0 THEN Throw(self, "TypeError")
     ELSE Return(self, [t |-> "slice", store |-> view, roffset |-> 0, woffset |-> view.len,
                        noAssert |-> FALSE])

\* the store of the source after slice.writeInt8(value, i) with i inside the
\* window: the byte goes to the memory the window is on
WriteThroughView(heap, sl, value, i, fresh) ==
  LET sb == [buffer |-> ViewBytes(heap, sl.store), roffset |-> sl.roffset,
             woffset |-> sl.woffset, noAssert |-> sl.noAssert]
      res == writeInt8(Enter(sb, sb, fresh), value, Num(i))
  IN [heap |-> IF sl.store.shared THEN SetBytes(heap, sl.store.base, res.buffer) ELSE heap,
      slice |-> IF sl.store.shared THEN sl ELSE [sl EXCEPT !.store.copy = res.buffer]]

\* a clone that copies the store whatever it is asked
cloneCopying(self, deep) ==
  LET store == BufferCopy(self.buffer, allocUnsafe(Len(self.buffer), self.fresh),
                          0, 0, Len(self.buffer))
  IN Return(self, [buffer |-> store, roffset |-> self.roffset, woffset |-> self.woffset,
                   noAssert |-> SmartBuffer(0, self.noAssert, self.fresh).noAssert,
                   shares |-> FALSE])

\* clone(copy), deep being the argument copy; ret: the new SmartBuffer,
\* shares telling whether its buffer is the Buffer object of this one; an
\* omitted argument counts as false
clone(self, deep) ==
  LET store == IF deep
               THEN BufferCopy(self.buffer, allocUnsafe(Len(self.buffer), self.fresh),
                               0, 0, Len(self.buffer))
               ELSE self.buffer
  IN Return(self, [buffer |-> store, roffset |-> self.roffset, woffset |-> self.woffset,
                   noAssert |-> SmartBuffer(0, self.noAssert, self.fresh).noAssert,
                   shares |-> ~deep])

\* whether two buffers that shared a Buffer object before a call of one of
\* them still do: resize gives the caller a new Buffer exactly when the
\* store grows, and the other buffer keeps the old one
StillShared(shares, before, res) == shares /\ Len(res.buffer) = Len(before)

\* read(length, offset) for an integer length; ret: the slice
\* [offset, offset + length)
read(self, length, offset) ==
  LET relative == IsUndefined(offset)
      off == IF relative THEN Num(self.roffset) ELSE offset
      o == IF self.noAssert THEN off.n ELSE ToUint32(off)
      s == slice(self, Num(o), Num(o + length.n))
  IN IF ~self.noAssert /\ ~IsInteger(off) THEN Throw(self, "TypeError")
     ELSE IF ~self.noAssert /\ (o < 0 \/ o + length.n > Len(self.buffer))
          THEN Throw(self, "TypeError")
     ELSE IF ~Ok(s) THEN s
     ELSE IF relative THEN [s EXCEPT !.roffset = @ + length.n]
     ELSE s

(***************************************************************************)
(* Encodings of the contents.                                              *)
(***************************************************************************)
\* toBinary(begin, end): one character per byte
\* a toBinary whose range check the flag guards
toBinaryGuarded(self, begin, end) ==
  LET b == IF IsUndefined(begin) THEN self.roffset ELSE ToInt32(begin)
      e == IF IsUndefined(end) THEN self.woffset ELSE ToInt32(end)
  IN IF ~self.noAssert /\ (b < 0 \/ e > getCapacity(self) \/ b > e) THEN Throw(self, "RangeError")
     ELSE Return(self, Str(Slice(self.buffer, b, e)))

toBinary(self, begin, end) ==
  LET b == IF IsUndefined(begin) THEN self.roffset ELSE ToInt32(begin)
      e == IF IsUndefined(end) THEN self.woffset ELSE ToInt32(end)
  IN IF b < 0 \/ e > getCapacity(self) \/ b > e THEN Throw(self, "RangeError")
     ELSE Return(self, Str(Slice(self.buffer, b, e)))

\* the base64 alphabet, as character codes
B64Char(v) ==
  IF v < 26 THEN 65 + v
  ELSE IF v < 52 THEN 97 + (v - 26)
  ELSE IF v < 62 THEN 48 + (v - 52)
  ELSE IF v = 62 THEN 43 ELSE 47

\* buffer.toString("base64") of a sequence of bytes; 61 is the padding "="
RECURSIVE Base64(_)
Base64(bytes) ==
  IF bytes = <<>> THEN <<>>
  ELSE IF Len(bytes) = 1
       THEN <<B64Char(bytes[1] \div 4), B64Char((bytes[1] % 4) * 16), 61, 61>>
  ELSE IF Len(bytes) = 2
       THEN <<B64Char(bytes[1] \div 4), B64Char((bytes[1] % 4) * 16 + (bytes[2] \div 16)),
              B64Char((bytes[2] % 16) * 4), 61>>
  ELSE <<B64Char(bytes[1] \div 4), B64Char((bytes[1] % 4) * 16 + (bytes[2] \div 16)),
         B64Char((bytes[2] % 16) * 4 + (bytes[3] \div 64)), B64Char(bytes[3] % 64)>>
       \o Base64(SubSeq(bytes, 4, Len(bytes)))

\* toBase64(begin, end)
toBase64(self, begin, end) ==
  LET b == IF IsUndefined(begin) THEN self.roffset ELSE ToInt32(begin)
      e == IF IsUndefined(end) THEN self.woffset ELSE ToInt32(end)
  IN IF b < 0 \/ e > Len(self.buffer) \/ b > e THEN Throw(self, "RangeError")
     ELSE Return(self, Str(Base64(Slice(self.buffer, b, e))))

\* toArrayBuffer(); ret: the bytes of the new ArrayBuffer, which starts
\* zero-filled; new ArrayBuffer rejects a negative length
toArrayBuffer(self) ==
  LET offset == self.roffset
      limit == self.woffset
      dst == [i \in 1..(limit - offset) |-> 0]
  IN IF ~self.noAssert /\ (offset < 0 \/ offset > limit \/ limit > Len(self.buffer))
     THEN Throw(self, "RangeError")
     ELSE IF limit - offset < 0 THEN Throw(self, "RangeError")
     ELSE Return(self, [t |-> "ArrayBuffer",
                        bytes |-> BufferCopy(self.buffer, dst, 0, 0, Len(self.buffer))])

(***************************************************************************)
(* Varint64 decoding.                                                      *)
(***************************************************************************)
\* the nested ifs of readVarint64, byte c = 0..9 of the varint:
\* [err, offset, part0, part1, part2] when they end
RECURSIVE ReadVarint64Chain(_, _, _, _, _, _, _)
ReadVarint64Chain(buf, noAssert, offset, c, part0, part1, part2) ==
  LET b == Byte(buf, offset)
      g == And32(ByteOr0(buf, offset), 127)
      p0 == IF c < 4 THEN Or32(part0, Shl32(g, 7 * c)) ELSE part0
      p1 == IF c >= 4 /\ c < 8 THEN Or32(part1, Shl32(g, 7 * (c - 4))) ELSE part1
      p2 == IF c >= 8 THEN Or32(part2, Shl32(g, 7 * (c - 8))) ELSE part2
      more == (b # -1 /\ And32(b, 128) # 0) \/ (c >= 1 /\ noAssert /\ b = -1)
  IN IF more /\ c = 9
     THEN [err |-> "RangeError", offset |-> offset + 1, part0 |-> p0, part1 |-> p1, part2 |-> p2]
     ELSE IF more THEN ReadVarint64Chain(buf, noAssert, offset + 1, c + 1, p0, p1, p2)
     ELSE [err |-> "none", offset |-> offset + 1, part0 |-> p0, part1 |-> p1, part2 |-> p2]

\* ret: the Long (relative) or [value, length]
readVarint64(self, offset) ==
  LET relative == IsUndefined(offset)
      off == IF relative THEN Num(self.roffset) ELSE offset
      start == ToUint32(off)
      r == ReadVarint64Chain(self.buffer, self.noAssert, start, 0, 0, 0, 0)
      value == Long(Or32(r.part0, Shl32(r.part1, 28)),
                    Or32(Shru32(r.part1, 4), Shl32(r.part2, 24)), FALSE)
  IN IF ~self.noAssert /\ ~IsInteger(off) THEN Throw(self, "TypeError")
     ELSE IF ~self.noAssert /\ (start < 0 \/ start + 1 > Len(self.buffer))
          THEN Throw(self, "RangeError")
     ELSE IF r.err # "none" THEN Throw(self, r.err)
     ELSE IF relative THEN Return([self EXCEPT !.roffset = r.offset], value)
     ELSE Return(self, [value |-> value, length |-> r.offset - start])

(***************************************************************************)
(* Varint64 encoding.  A Long is its two signed 32-bit words; shl, shr,    *)
(* shru, xor, and, negate of the long library are computed on the words.   *)
(***************************************************************************)
\* the Long writeVarint64 and the zig-zag codec work on: Long.fromNumber of a
\* number, toSigned() of an unsigned Long
ToSignedLong(value) ==
  IF value.t = "number"
  THEN Long(ToInt32(value), IF ToInt32(value) < 0 THEN -1 ELSE 0, FALSE)
  ELSE Long(value.low, value.high, FALSE)

\* <<part0, part1, part2>>: value.toInt() >>> 0, value.shru(28).toInt() >>> 0,
\* value.shru(56).toInt() >>> 0, each as a 32-bit word
Varint64Parts(value) ==
  <<value.low,
    Or32(Shru32(value.low, 28), Shl32(value.high, 4)),
    Shru32(value.high, 24)>>

calculateVarint64(v) ==
  LET value == ToSignedLong(v)
      part0 == Varint64Parts(value)[1]
      part1 == Varint64Parts(value)[2]
      part2 == Varint64Parts(value)[3]
  IN IF part2 = 0
     THEN IF part1 = 0
          THEN IF ULess(part0, 14) THEN (IF ULess(part0, 7) THEN 1 ELSE 2)
               ELSE (IF ULess(part0, 21) THEN 3 ELSE 4)
          ELSE IF ULess(part1, 14) THEN (IF ULess(part1, 7) THEN 5 ELSE 6)
               ELSE (IF ULess(part1, 21) THEN 7 ELSE 8)
     ELSE IF ULess(part2, 7) THEN 9 ELSE 10

\* a writer that clears the continuation bit of every byte
Varint64ByteEnding(parts, k, size) ==
  LET part == parts[(k \div 4) + 1]
      raw == IF k % 4 = 0 THEN part ELSE Shru32(part, 7 * (k % 4))
  IN IF k = 9 THEN And32(Shru32(parts[3], 7), 1) ELSE And32(raw, 127)

\* the byte the switch of writeVarint64 stores at offset + k
Varint64Byte(parts, k, size) ==
  LET part == parts[(k \div 4) + 1]
      raw == IF k % 4 = 0 THEN part ELSE Shru32(part, 7 * (k % 4))
  IN IF k = 9 THEN And32(Shru32(parts[3], 7), 1)
     ELSE IF size # k + 1 THEN U8(Or32(raw, 128)) ELSE And32(raw, 127)

Varint64Bytes(value, size) ==
  [k \in 1..size |-> Varint64Byte(Varint64Parts(value), k - 1, size)]

\* ret: this (relative) or the number of bytes written
writeVarint64(self, v, offset) ==
  LET relative == IsUndefined(offset)
      off == IF relative THEN Num(self.woffset) ELSE offset
      start == ToUint32(off)
      value == ToSignedLong(v)
      size == calculateVarint64(value)
      s1 == SetBytes(Grow(self, start + size).buffer, start, Varint64Bytes(value, size))
      s2 == [Grow(self, start + size) EXCEPT !.buffer = s1]
  IN IF ~self.noAssert /\ v.t \notin {"number", "Long"} THEN Throw(self, "TypeError")
     ELSE IF ~self.noAssert /\ ~IsInteger(off) THEN Throw(self, "TypeError")
     ELSE IF ~self.noAssert /\ (start < 0 \/ start + 0 > Len(self.buffer))
          THEN Throw(self, "RangeError")
     ELSE IF relative THEN Return([s2 EXCEPT !.woffset = @ + size], This)
     ELSE Return(s2, Num(size))

\* value.shl(1).xor(value.shr(63)).toUnsigned()
zigZagEncode64(v) ==
  LET value == ToSignedLong(v)
      sign == IF value.high < 0 THEN -1 ELSE 0
  IN Long(Xor32(Shl32(value.low, 1), sign),
          Xor32(Or32(Shl32(value.high, 1), Shru32(value.low, 31)), sign), TRUE)

\* value.shru(1).xor(value.and(Long.ONE).toSigned().negate()).toSigned()
zigZagDecode64(v) ==
  LET value == ToSignedLong(v)
      neg == IF And32(value.low, 1) = 1 THEN -1 ELSE 0
      carry == IF value.high % 2 = 1 THEN (-2147483647) - 1 ELSE 0
  IN Long(Xor32(Or32(Shru32(value.low, 1), carry), neg),
          Xor32(Shru32(value.high, 1), neg), FALSE)

writeVarint64ZigZag(self, value, offset) == writeVarint64(self, zigZagEncode64(value), offset)

readVarint64ZigZag(self, offset) ==
  LET r == readVarint64(self, offset)
  IN IF r.err # "none" THEN r
     ELSE IF IsUndefined(offset) THEN [r EXCEPT !.ret = zigZagDecode64(@)]
     ELSE [r EXCEPT !.ret.value = zigZagDecode64(@)]

(***************************************************************************)
(* The debug encoding.  A string is the sequence of its characters.        *)
(***************************************************************************)
HexDigits == <<"0", "1", "2", "3", "4", "5", "6", "7", "8", "9", "A", "B", "C", "D", "E", "F">>
LowerHexDigits == <<"0", "1", "2", "3", "4", "5", "6", "7", "8", "9", "a", "b", "c", "d", "e", "f">>

\* the two upper-case hex digits toDebug emits for a byte
HexByte(b) == <<HexDigits[(b \div 16) + 1], HexDigits[(b % 16) + 1]>>

\* what toDebug appends after position i
DebugMarker(self, i) ==
  LET k == Len(self.buffer)
  IN IF i = self.roffset /\ self.roffset = self.woffset /\ self.woffset = k THEN <<"|">>
     ELSE IF i = self.roffset /\ self.roffset = self.woffset THEN <<"^">>
     ELSE IF i = self.roffset /\ self.roffset = k THEN <<"[">>
     ELSE IF i = self.woffset /\ self.woffset = k THEN <<"]">>
     ELSE IF i = self.roffset THEN <<"<">>
     ELSE IF i = self.woffset THEN <<">">>
     ELSE IF i = k THEN <<"*">>
     ELSE IF i # 0 /\ i # k THEN <<" ">>
     ELSE <<>>

\* the iterations of toDebug's loop from position i on
RECURSIVE DebugFrom(_, _)
DebugFrom(self, i) ==
  IF i > Len(self.buffer) THEN <<>>
  ELSE (IF i > 0 THEN HexByte(self.buffer[i]) ELSE <<>>)
       \o DebugMarker(self, i) \o DebugFrom(self, i + 1)

\* toDebug(), columns = false
toDebug(self) == DebugFrom(self, 0)

\* the value of a hex digit, -1 for any other character
HexVal(ch) ==
  IF \E d \in 1..16 : HexDigits[d] = ch THEN (CHOOSE d \in 1..16 : HexDigits[d] = ch) - 1
  ELSE IF \E d \in 1..16 : LowerHexDigits[d] = ch
       THEN (CHOOSE d \in 1..16 : LowerHexDigits[d] = ch) - 1
  ELSE -1

NaN == -256

\* parseInt(ch + c2, 16) for a first character that is not white space: the
\* longest prefix that is a hex number, NaN when there is none
parseInt16(ch, c2) ==
  IF ch \in {"+", "-"}
  THEN (IF HexVal(c2) = -1 THEN NaN ELSE IF ch = "-" THEN -HexVal(c2) ELSE HexVal(c2))
  ELSE IF HexVal(ch) = -1 THEN NaN
  ELSE IF ch = "0" /\ c2 \in {"x", "X"} THEN NaN
  ELSE IF HexVal(c2) = -1 THEN HexVal(ch)
  ELSE HexVal(ch) * 16 + HexVal(c2)

\* a capacity rounded up instead of down
DebugCapacityCeil(k) == (k + 2) \div 3

\* ((k + 1) / 3) | 0: the capacity fromDebug allocates for a string of length k
DebugCapacity(k) == (k + 1) \div 3

\* the while loop of fromDebug from index i on; st is
\* [buffer, roffset, woffset, j, rs, hw, hr, hl, err]
RECURSIVE FromDebugLoop(_, _, _, _)
FromDebugLoop(st, str, noAssert, i) ==
  LET ch == str[i + 1]
      c2 == IF i + 2 <= Len(str) THEN str[i + 2] ELSE ""
      b == parseInt16(ch, c2)
      fail == [st EXCEPT !.err = "RangeError"]
      next(t) == FromDebugLoop([t EXCEPT !.rs = FALSE], str, noAssert, i + 1)
  IN IF i >= Len(str) THEN st
     ELSE IF ch = "|"
          THEN IF ~noAssert /\ (st.hr \/ st.hw \/ st.hl) THEN fail
               ELSE next([st EXCEPT !.hr = @ \/ ~noAssert, !.hw = @ \/ ~noAssert,
                                    !.hl = @ \/ ~noAssert, !.roffset = st.j, !.woffset = st.j])
     ELSE IF ch = "]"
          THEN IF ~noAssert /\ (st.hw \/ st.hl) THEN fail
               ELSE next([st EXCEPT !.hw = @ \/ ~noAssert, !.hl = @ \/ ~noAssert,
                                    !.woffset = st.j])
     ELSE IF ch = "^"
          THEN IF ~noAssert /\ (st.hr \/ st.hw) THEN fail
               ELSE next([st EXCEPT !.hr = @ \/ ~noAssert, !.hw = @ \/ ~noAssert,
                                    !.roffset = st.j, !.woffset = st.j])
     ELSE IF ch = "<"
          THEN IF ~noAssert /\ st.hr THEN fail
               ELSE next([st EXCEPT !.hr = @ \/ ~noAssert, !.roffset = st.j])
     ELSE IF ch = "*"
          THEN IF ~noAssert /\ st.hl THEN fail
               ELSE next([st EXCEPT !.hl = @ \/ ~noAssert])
     ELSE IF ch = ">"
          THEN IF ~noAssert /\ st.hw THEN fail
               ELSE next([st EXCEPT !.hw = @ \/ ~noAssert, !.woffset = st.j])
     ELSE IF ch = " " THEN next(st)
     ELSE IF ~noAssert /\ st.rs THEN fail
     ELSE IF ~noAssert /\ (b = NaN \/ b < 0 \/ b > 255) THEN fail
     ELSE FromDebugLoop([st EXCEPT !.buffer = SetByte(@, st.j, IF b = NaN THEN 0 ELSE b),
                                   !.j = @ + 1, !.rs = TRUE],
                        str, noAssert, i + 2)

\* fromDebug(str, noAssert): [err, bb]
fromDebug(str, noAssert, fresh) ==
  LET bb == SmartBuffer(DebugCapacity(Len(str)), noAssert, fresh)
      st == FromDebugLoop([buffer |-> bb.buffer, roffset |-> 0, woffset |-> 0, j |-> 0,
                           rs |-> FALSE, hw |-> FALSE, hr |-> FALSE, hl |-> FALSE,
                           err |-> "none"], str, noAssert, 0)
      out == [buffer |-> st.buffer, roffset |-> st.roffset, woffset |-> st.woffset,
              noAssert |-> noAssert]
  IN IF st.err # "none" THEN [err |-> st.err, bb |-> bb]
     ELSE IF ~noAssert /\ (~st.hr \/ ~st.hw \/ ~st.hl) THEN [err |-> "RangeError", bb |-> bb]
     ELSE IF ~noAssert /\ st.j < Len(st.buffer) THEN [err |-> "RangeError", bb |-> bb]
     ELSE [err |-> "none", bb |-> out]

(***************************************************************************)
(* The state: one SmartBuffer (buffer, roffset, woffset, noAssert), a      *)
(* second one that serves as source or target (other), and the history of  *)
(* the last call: the objects before it (old), what was called and how it  *)
(* ended (last), and the number of calls made (ops).  input holds the      *)
(* argument of the specifications that exercise one function.              *)
(***************************************************************************)
VARIABLES buffer, roffset, woffset, noAssert, other, old, last, ops, input

vars == <<buffer, roffset, woffset, noAssert, other, old, last, ops, input>>

bb == [buffer |-> buffer, roffset |-> roffset, woffset |-> woffset, noAssert |-> noAssert]

\* what Buffer.allocUnsafe may hand out
Uninit == {0, 255}

\* arrays of octets given to wrap
WrapInputs == {<<128>>, <<97, 0>>, <<1, 97>>}
\* the array of octets the second buffer wraps
OtherInput == <<9>>

\* the offset argument: omitted, 0..MaxOffset, or 0.5 (checked calls only)
Offsets == {Undefined} \cup {Num(i) : i \in 0..MaxOffset}
             \cup (IF noAssert THEN {} ELSE {Frac(0)})
IntOffsets == {Undefined} \cup {Num(i) : i \in 0..MaxOffset}

\* arguments that are not of the documented type are passed to checked calls only
IntValues == {Num(-2), Obj}
FloatValues == {Num(1), Frac(1), Obj}
LongValues == {Num(1), Long(1, 0, FALSE)} \cup (IF noAssert THEN {} ELSE {Obj})
VarintValues == {Num(1), Num(300)} \cup (IF noAssert THEN {} ELSE {Frac(1), Obj})
Strings == {Str(<<97>>), Str(<<233>>), Str(<<97, 0>>)}
StringValues == Strings \cup (IF noAssert THEN {} ELSE {Obj})
BitSets == {Arr(<<TRUE, FALSE, TRUE>>),
            Arr(<<TRUE, TRUE, FALSE, FALSE, FALSE, FALSE, FALSE, FALSE, TRUE>>)}
BitSetValues == BitSets \cup (IF noAssert THEN {} ELSE {Obj})
Sources == {Str(<<97>>), Other, Obj}
Lengths == {Num(1), Num(3)} \cup (IF noAssert THEN {} ELSE {Num(-1), Frac(0)})

Entry(fresh) == Enter(bb, other, fresh)

\* the description of a call: kind is "read", "write", "fill", "prepend" or
\* "other"; offset is the offset argument; n is the number of bytes the call
\* is documented to consume or produce at that offset; args are the arguments
\* of a call whose ranges are not an offset and a count
DescArgs(op, kind, offset, n, args) ==
  [op |-> op, kind |-> kind, offset |-> offset, n |-> n, args |-> args,
   err |-> "none", ret |-> Undefined]

Desc(op, kind, offset, n) == DescArgs(op, kind, offset, n, <<>>)

\* one call of the API: res is the object when the call returns or throws;
\* in is what the caller keeps of the call
CallWith(res, desc, in) ==
  /\ buffer' = res.buffer
  /\ roffset' = res.roffset
  /\ woffset' = res.woffset
  /\ noAssert' = res.noAssert
  /\ other' = res.other
  /\ old' = [buffer |-> buffer, roffset |-> roffset, woffset |-> woffset, other |-> other]
  /\ last' = [desc EXCEPT !.err = res.err, !.ret = IF Ok(res) THEN res.ret ELSE Undefined]
  /\ ops' = ops + 1
  /\ input' = in

Call(res, desc) == CallWith(res, desc, input)

\* the offset a call starts at
StartOf(offset, cursor) == IF IsUndefined(offset) THEN cursor ELSE ToUint32(offset)

\* the length of the varint stored at off: up to and including the first byte
\* without the continuation bit; -1 when the store ends before such a byte
EncodedVarintLen(buf, off) ==
  LET ends == {i \in off..(Len(buf) - 1) : i >= 0 /\ buf[i + 1] < 128}
  IN IF ends = {} THEN -1
     ELSE (CHOOSE i \in ends : \A k \in ends : i <= k) - off + 1

\* the length of the NUL-terminated string stored at off, the NUL included
EncodedCStringLen(buf, off) ==
  LET nuls == {i \in off..(Len(buf) - 1) : i >= 0 /\ buf[i + 1] = 0}
  IN IF nuls = {} THEN -1
     ELSE (CHOOSE i \in nuls : \A k \in nuls : i <= k) - off + 1

\* the bytes the first count UTF-8 sequences stored at off take, by their first bytes
RECURSIVE EncodedCharsLen(_, _, _)
EncodedCharsLen(buf, off, count) ==
  IF count <= 0 \/ off >= Len(buf) \/ off < 0 THEN 0
  ELSE LET a == buf[off + 1]
           w == IF a < 192 THEN 1 ELSE IF a < 224 THEN 2 ELSE IF a < 240 THEN 3 ELSE 4
       IN w + EncodedCharsLen(buf, off + w, count - 1)

NoCall == Desc("new", "other", Undefined, 0)

Init ==
  /\ noAssert \in BOOLEAN
  /\ \E b0 \in {SmartBuffer(c, noAssert, fresh) : c \in 0..MaxInitCap, fresh \in Uninit}
                 \cup {wrap(bytes, noAssert) : bytes \in WrapInputs} :
        /\ buffer = b0.buffer
        /\ roffset = b0.roffset
        /\ woffset = b0.woffset
  /\ other = wrap(OtherInput, FALSE)
  /\ old = [buffer |-> buffer, roffset |-> roffset, woffset |-> woffset, other |-> other]
  /\ last = NoCall
  /\ ops = 0
  /\ input = Undefined

(***************************************************************************)
(* The calls.                                                              *)
(***************************************************************************)
WriteInt8 ==
  /\ ops < MaxOps
  /\ \E value \in IntValues, offset \in Offsets, fresh \in Uninit :
       Call(writeInt8(Entry(fresh), value, offset), Desc("writeInt8", "write", offset, 1))

WriteUInt16BE ==
  /\ ops < MaxOps
  /\ \E value \in IntValues, offset \in Offsets, fresh \in Uninit :
       Call(writeUInt16BE(Entry(fresh), value, offset), Desc("writeUInt16BE", "write", offset, 2))

WriteInt32LE ==
  /\ ops < MaxOps
  /\ \E value \in IntValues, offset \in Offsets, fresh \in Uninit :
       Call(writeInt32LE(Entry(fresh), value, offset), Desc("writeInt32LE", "write", offset, 4))

WriteFloatBE ==
  /\ ops < MaxOps
  /\ \E value \in FloatValues, offset \in Offsets, fresh \in Uninit :
       Call(writeFloatBE(Entry(fresh), value, offset), Desc("writeFloatBE", "write", offset, 4))

WriteInt64LE ==
  /\ ops < MaxOps
  /\ \E value \in LongValues, offset \in Offsets, fresh \in Uninit :
       Call(writeInt64LE(Entry(fresh), value, offset), Desc("writeInt64LE", "write", offset, 8))

WriteVarint32 ==
  /\ ops < MaxOps
  /\ \E value \in VarintValues, offset \in Offsets, fresh \in Uninit :
       Call(writeVarint32(Entry(fresh), value, offset),
            Desc("writeVarint32", "write", offset, calculateVarint32(ToInt32(value))))

WriteVarint32ZigZag ==
  /\ ops < MaxOps
  /\ \E value \in VarintValues, offset \in Offsets, fresh \in Uninit :
       Call(writeVarint32ZigZag(Entry(fresh), value, offset),
            Desc("writeVarint32ZigZag", "write", offset,
                 calculateVarint32(zigZagEncode32(ToInt32(value)))))

WriteCString ==
  /\ ops < MaxOps
  /\ \E str \in StringValues, offset \in Offsets, fresh \in Uninit :
       Call(writeCString(Entry(fresh), str, offset),
            DescArgs("writeCString", "write", offset,
                     IF _isString(str) THEN byteLength(str.s) + 1 ELSE 0, <<str>>))

WriteString ==
  /\ ops < MaxOps
  /\ \E str \in Strings, offset \in Offsets, fresh \in Uninit :
       Call(writeString(Entry(fresh), str, offset),
            Desc("writeString", "write", offset, byteLength(str.s)))

WriteVString ==
  /\ ops < MaxOps
  /\ \E str \in StringValues, offset \in Offsets, fresh \in Uninit :
       Call(writeVString(Entry(fresh), str, offset),
            Desc("writeVString", "write", offset,
                 IF _isString(str)
                 THEN calculateVarint32(byteLength(str.s)) + byteLength(str.s) ELSE 0))

WriteBitSet ==
  /\ ops < MaxOps
  /\ \E value \in BitSetValues, offset \in Offsets, fresh \in Uninit :
       Call(writeBitSet(Entry(fresh), value, offset),
            Desc("writeBitSet", "write", offset,
                 IF value.t = "array"
                 THEN calculateVarint32(Len(value.a)) + ((Len(value.a) + 7) \div 8) ELSE 0))

Write ==
  /\ ops < MaxOps
  /\ \E source \in Sources, offset \in Offsets, fresh \in Uninit :
       Call(write(Entry(fresh), source, offset),
            DescArgs("write", "write", offset,
                     IF _isString(source) THEN byteLength(source.s)
                     ELSE Max(0, other.woffset - other.roffset),
                     <<source>>))

WriteBuffer ==
  /\ ops < MaxOps
  /\ \E buf \in {<<>>, <<7>>}, offset \in IntOffsets, fresh \in Uninit :
       Call(writeBuffer(Entry(fresh), buf, offset), Desc("writeBuffer", "write", offset, Len(buf)))

\* Buffer.fill is given a range inside the store
Fill ==
  /\ ops < MaxOps
  /\ \E begin \in Offsets, end \in {Undefined, Num(1)} :
       /\ noAssert => StartOf(end, Len(buffer)) <= Len(buffer)
       /\ Call(fill(Entry(0), Num(7), begin, end),
               Desc("fill", "fill", begin,
                    Max(0, StartOf(end, Len(buffer)) - StartOf(begin, woffset))))

\* Buffer.copy is given a source range that starts inside the store
Prepend ==
  /\ ops < MaxOps
  /\ \E source \in {Other, Str(<<97>>)}, offset \in Offsets, fresh \in Uninit :
       /\ noAssert => StartOf(offset, roffset) <= Len(buffer)
       /\ Call(prepend(Entry(fresh), source, offset),
               DescArgs("prepend", "prepend", offset,
                        IF _isString(source) THEN byteLength(source.s)
                        ELSE Max(0, Len(other.buffer) - other.roffset),
                        <<source>>))

Read ==
  /\ ops < MaxOps
  /\ \E length \in {Num(1), Num(3)}, offset \in Offsets :
       Call(read(Entry(0), length, offset), Desc("read", "read", offset, length.n))

ReadInt8 ==
  /\ ops < MaxOps
  /\ \E offset \in Offsets :
       Call(readInt8(Entry(0), offset), Desc("readInt8", "read", offset, 1))

ReadUInt16BE ==
  /\ ops < MaxOps
  /\ \E offset \in Offsets :
       Call(readUInt16BE(Entry(0), offset), Desc("readUInt16BE", "read", offset, 2))

ReadInt32LE ==
  /\ ops < MaxOps
  /\ \E offset \in Offsets :
       Call(readInt32LE(Entry(0), offset), Desc("readInt32LE", "read", offset, 4))

ReadInt64LE ==
  /\ ops < MaxOps
  /\ \E offset \in Offsets :
       Call(readInt64LE(Entry(0), offset), Desc("readInt64LE", "read", offset, 8))

ReadVarint32 ==
  /\ ops < MaxOps
  /\ \E offset \in Offsets :
       Call(readVarint32(Entry(0), offset),
            Desc("readVarint32", "read", offset,
                 EncodedVarintLen(buffer, StartOf(offset, roffset))))

ReadVarint32ZigZag ==
  /\ ops < MaxOps
  /\ \E offset \in Offsets :
       Call(readVarint32ZigZag(Entry(0), offset),
            Desc("readVarint32ZigZag", "read", offset,
                 EncodedVarintLen(buffer, StartOf(offset, roffset))))

ReadVarint64 ==
  /\ ops < MaxOps
  /\ \E offset \in Offsets :
       Call(readVarint64(Entry(0), offset),
            Desc("readVarint64", "read", offset,
                 EncodedVarintLen(buffer, StartOf(offset, roffset))))

ReadCString ==
  /\ ops < MaxOps
  /\ \E offset \in Offsets :
       Call(readCString(Entry(0), offset),
            Desc("readCString", "read", offset,
                 EncodedCStringLen(buffer, StartOf(offset, roffset))))

ReadString ==
  /\ ops < MaxOps
  /\ \E length \in {Num(1), Num(2)} \cup (IF noAssert THEN {} ELSE {Frac(0)}),
        metrics \in {METRICS_CHARS, METRICS_BYTES}, offset \in Offsets :
       Call(readString(Entry(0), length, metrics, offset),
            DescArgs("readString", "read", offset,
                     IF metrics = METRICS_BYTES THEN ToInt32(length)
                     ELSE EncodedCharsLen(buffer, StartOf(offset, roffset), ToInt32(length)),
                     <<length, metrics>>))

\* an unchecked readVString is given a store whose length prefix is below 2^30
ReadVString ==
  /\ ops < MaxOps
  /\ \E offset \in Offsets :
       LET res == readVString(Entry(0), offset)
           start == StartOf(offset, roffset)
           l == EncodedVarintLen(buffer, start)
       IN /\ noAssert => readVarint32(Entry(0), Num(start)).ret.value < 1073741824
          /\ Call(res, Desc("readVString", "read", offset,
                         IF Ok(res) /\ l > 0
                         THEN l + readVarint32(Entry(0), Num(start)).ret.value ELSE -1))

\* an unchecked readBitSet is given a store whose bit count is at most 64
ReadBitSet ==
  /\ ops < MaxOps
  /\ \E offset \in Offsets :
       LET start == StartOf(offset, roffset)
           count == readVarint32(Entry(0), Num(start))
           res == readBitSet(Entry(0), offset)
           l == EncodedVarintLen(buffer, start)
       IN /\ noAssert => (count.ret.value >= 0 /\ count.ret.value <= 64)
          /\ Call(res, Desc("readBitSet", "read", offset,
                            IF Ok(res) /\ l > 0 THEN l + ((Len(res.ret.a) + 7) \div 8) ELSE -1))

Reset ==
  /\ ops < MaxOps
  /\ \E resetWOffset \in BOOLEAN :
       Call(reset(Entry(0), resetWOffset), Desc("reset", "other", Undefined, 0))

SkipRead ==
  /\ ops < MaxOps
  /\ \E length \in Lengths :
       Call(skipRead(Entry(0), length),
            DescArgs("skipRead", "other", Undefined, 0, <<length>>))

SkipWrite ==
  /\ ops < MaxOps
  /\ \E length \in Lengths :
       Call(skipWrite(Entry(0), length),
            DescArgs("skipWrite", "other", Undefined, 0, <<length>>))

\* an unchecked compact is given a range of the store
Compact ==
  /\ ops < MaxOps
  /\ \E begin \in {Undefined, Num(0), Num(1)}, end \in {Undefined, Num(1)}, fresh \in Uninit :
       /\ noAssert => /\ StartOf(begin, roffset) <= StartOf(end, Len(buffer))
                      /\ StartOf(end, Len(buffer)) <= Len(buffer)
       /\ Call(compact(Entry(fresh), begin, end),
               DescArgs("compact", "other", Undefined, 0, <<begin, end>>))

\* an unchecked copy is given a range of the store
Copy ==
  /\ ops < MaxOps
  /\ \E begin \in {Undefined, Num(0), Num(1)}, end \in {Undefined, Num(2)}, fresh \in Uninit :
       /\ noAssert => /\ StartOf(begin, roffset) <= StartOf(end, woffset)
                      /\ StartOf(end, woffset) <= Len(buffer)
       /\ Call(copy(Entry(fresh), begin, end),
               DescArgs("copy", "other", Undefined, 0, <<begin, end>>))

\* Buffer.copy is given a source range that starts inside the store
CopyTo ==
  /\ ops < MaxOps
  /\ \E target \in {Other} \cup (IF noAssert THEN {} ELSE {Obj}),
        targetOffset \in {Undefined, Num(0), Num(MaxOffset)},
        sourceStart \in {Undefined, Num(0)},
        sourceEnd \in {Undefined, Num(MaxOffset)},
        fresh \in Uninit :
       /\ StartOf(sourceStart, roffset) <= Len(buffer)
       /\ Call(copyTo(Entry(fresh), target, targetOffset, sourceStart, sourceEnd),
               DescArgs("copyTo", "other", Undefined, 0,
                        <<target, targetOffset, sourceStart, sourceEnd>>))

EnsureCapacity ==
  /\ ops < MaxOps
  /\ \E cap \in 0..(MaxInitCap + 2), fresh \in Uninit :
       Call(ensureCapacity(Entry(fresh), cap),
            DescArgs("ensureCapacity", "other", Undefined, 0, <<Num(cap)>>))

Resize ==
  /\ ops < MaxOps
  /\ \E cap \in {Num(c) : c \in 0..(MaxInitCap + 1)} \cup (IF noAssert THEN {} ELSE {Frac(1), Num(-1)}),
        fresh \in Uninit :
       Call(resize(Entry(fresh), cap),
            DescArgs("resize", "other", Undefined, 0, <<cap>>))

ToBinary ==
  /\ ops < MaxOps
  /\ \E begin \in {Undefined, Num(0)}, end \in {Undefined, Num(MaxOffset)} :
       Call(toBinary(Entry(0), begin, end),
            DescArgs("toBinary", "other", Undefined, 0, <<begin, end>>))

ToBase64 ==
  /\ ops < MaxOps
  /\ \E begin \in {Undefined, Num(0)}, end \in {Undefined, Num(MaxOffset)} :
       Call(toBase64(Entry(0), begin, end),
            DescArgs("toBase64", "other", Undefined, 0, <<begin, end>>))

ToArrayBuffer ==
  /\ ops < MaxOps
  /\ Call(toArrayBuffer(Entry(0)), Desc("toArrayBuffer", "other", Undefined, 0))

ToDebug ==
  /\ ops < MaxOps
  /\ Call(Return(Entry(0), Str(toDebug(bb))), Desc("toDebug", "other", Undefined, 0))

Next ==
  \/ WriteInt8 \/ WriteUInt16BE \/ WriteInt32LE \/ WriteFloatBE \/ WriteInt64LE
  \/ WriteVarint32 \/ WriteVarint32ZigZag
  \/ WriteCString \/ WriteString \/ WriteVString \/ WriteBitSet
  \/ Write \/ WriteBuffer \/ Fill \/ Prepend
  \/ Read \/ ReadInt8 \/ ReadUInt16BE \/ ReadInt32LE \/ ReadInt64LE
  \/ ReadVarint32 \/ ReadVarint32ZigZag \/ ReadVarint64
  \/ ReadCString \/ ReadString \/ ReadVString \/ ReadBitSet
  \/ Reset \/ SkipRead \/ SkipWrite \/ Compact \/ Copy \/ CopyTo \/ EnsureCapacity \/ Resize
  \/ ToBinary \/ ToBase64 \/ ToArrayBuffer \/ ToDebug

Spec == Init /\ [][Next]_vars

(***************************************************************************)
(* fromDebug on its own: the string is drawn from all strings of at most   *)
(* MaxDebugLen characters over DebugAlphabet and from the strings the      *)
(* tests and the documentation use; one call parses it.                    *)
(***************************************************************************)
MaxDebugLen == 3

DebugAlphabet == {"<", ">", "*", "|", "^", "]", "[", " ", "0", "6", "A", "G"}

\* "<61 62 00>"
Scenario4 == <<"<", "6", "1", " ", "6", "2", " ", "0", "0", ">">>
\* "<61 62 00>00*"
Scenario4Terminated == Scenario4 \o <<"0", "0", "*">>

DebugStrings ==
  UNION {[1..k -> DebugAlphabet] : k \in 0..MaxDebugLen}
    \cup {Scenario4, Scenario4Terminated,
          <<"6", "0", "<", "6", "1", " ", "6", "2", ">", "6", "3", "*">>,
          <<"<", "6", "0", " ", "6", "1", " ", "6", "2", " ", "6", "3", "]">>,
          <<"^", "6", "1", "*">>}

DebugInput(str, na) == [t |-> "debug", str |-> str, noAssert |-> na]

InitDebug ==
  /\ input \in {DebugInput(str, na) : str \in DebugStrings, na \in BOOLEAN}
  /\ buffer = <<>>
  /\ roffset = 0
  /\ woffset = 0
  /\ noAssert = input.noAssert
  /\ other = wrap(OtherInput, FALSE)
  /\ old = [buffer |-> buffer, roffset |-> roffset, woffset |-> woffset, other |-> other]
  /\ last = NoCall
  /\ ops = 0

\* bb = SmartBuffer.fromDebug(input.str, input.noAssert); nothing is assigned
\* when it throws
FromDebug ==
  /\ ops = 0
  /\ input.t = "debug"
  /\ \E fresh \in Uninit :
       LET r == fromDebug(input.str, input.noAssert, fresh)
           res == IF r.err = "none" THEN Enter(r.bb, other, fresh)
                  ELSE Throw(Entry(fresh), r.err)
       IN Call(res, Desc("fromDebug", "other", Undefined, 0))

NextDebug == FromDebug

SpecDebug == InitDebug /\ [][NextDebug]_vars

(***************************************************************************)
(* The zig-zag varint32 codec on its own: a value and an offset inside the *)
(* store are drawn, the value is written at the offset and read back.      *)
(***************************************************************************)
\* values around every length boundary of the encoding, and the extremes
Int32Samples ==
  {0, 1, -1, 63, -64, 64, -65, 300, -300, 8191, -8192, 8192, -8193,
   1048575, -1048576, 1048576, -1048577, 134217727, -134217728, 134217728, -134217729,
   2147483647, -2147483647, (-2147483647) - 1}

VarintInput(n, off) == [t |-> "varint", n |-> n, off |-> off, written |-> Undefined]

InitVarint ==
  /\ noAssert \in BOOLEAN
  /\ \E c \in 0..MaxInitCap, fresh \in Uninit :
        /\ buffer = SmartBuffer(c, noAssert, fresh).buffer
        /\ input \in {VarintInput(n, off) : n \in Int32Samples, off \in 0..Min(c, MaxOffset)}
  /\ roffset = 0
  /\ woffset = 0
  /\ other = wrap(OtherInput, FALSE)
  /\ old = [buffer |-> buffer, roffset |-> roffset, woffset |-> woffset, other |-> other]
  /\ last = NoCall
  /\ ops = 0

\* input.written = bb.writeVarint32ZigZag(input.n, input.off)
ZigZagWrite ==
  /\ ops = 0
  /\ input.t = "varint"
  /\ \E fresh \in Uninit :
       LET res == writeVarint32ZigZag(Entry(fresh), Num(input.n), Num(input.off))
       IN CallWith(res, Desc("writeVarint32ZigZag", "write", Num(input.off),
                            calculateVarint32(zigZagEncode32(input.n))),
                   [input EXCEPT !.written = res.ret])

\* bb.readVarint32ZigZag(input.off)
ZigZagRead ==
  /\ ops = 1
  /\ input.t = "varint"
  /\ Call(readVarint32ZigZag(Entry(0), Num(input.off)),
          Desc("readVarint32ZigZag", "read", Num(input.off),
               EncodedVarintLen(buffer, input.off)))

NextVarint == ZigZagWrite \/ ZigZagRead

SpecVarint == InitVarint /\ [][NextVarint]_vars

(***************************************************************************)
(* The varint64 codec on its own: a Long and an offset inside the store    *)
(* are drawn, the value is written at the offset (plain or zig-zag) and    *)
(* read back.                                                              *)
(***************************************************************************)
\* <<low, high>> words around every length boundary of the encoding, and the
\* extremes of the signed and unsigned ranges
LongSamples ==
  {<<0, 0>>, <<1, 0>>, <<127, 0>>, <<128, 0>>, <<300, 0>>, <<16383, 0>>, <<16384, 0>>,
   <<2097151, 0>>, <<2097152, 0>>, <<268435455, 0>>, <<268435456, 0>>,
   <<2147483647, 0>>, <<(-2147483647) - 1, 0>>, <<-1879048193, 0>>, <<-1, 0>>,
   <<0, 1>>, <<-1, 7>>, <<0, 8>>, <<-1, 1023>>, <<0, 1024>>, <<-1, 131071>>, <<0, 131072>>,
   <<-1, 16777215>>, <<0, 16777216>>, <<-1, 2147483647>>, <<0, (-2147483647) - 1>>,
   <<-1, -1>>, <<-2, -1>>, <<-3, -1>>, <<-300, -1>>, <<1431655765, -1431655766>>}

Varint64Input(w, unsigned, zz, off) ==
  [t |-> "varint64", v |-> Long(w[1], w[2], unsigned), zz |-> zz, off |-> off,
   written |-> Undefined]

InitVarint64 ==
  /\ noAssert \in BOOLEAN
  /\ \E c \in 0..MaxInitCap, fresh \in Uninit :
        /\ buffer = SmartBuffer(c, noAssert, fresh).buffer
        /\ input \in {Varint64Input(w, unsigned, zz, off) :
                        w \in LongSamples, unsigned \in BOOLEAN, zz \in BOOLEAN,
                        off \in 0..Min(c, MaxOffset)}
        /\ input.zz => ~input.v.unsigned
  /\ roffset = 0
  /\ woffset = 0
  /\ other = wrap(OtherInput, FALSE)
  /\ old = [buffer |-> buffer, roffset |-> roffset, woffset |-> woffset, other |-> other]
  /\ last = NoCall
  /\ ops = 0

\* input.written = bb.writeVarint64(input.v, input.off), or the zig-zag writer
Varint64Write ==
  /\ ops = 0
  /\ input.t = "varint64"
  /\ \E fresh \in Uninit :
       LET res == IF input.zz
                  THEN writeVarint64ZigZag(Entry(fresh), input.v, Num(input.off))
                  ELSE writeVarint64(Entry(fresh), input.v, Num(input.off))
       IN CallWith(res, Desc(IF input.zz THEN "writeVarint64ZigZag" ELSE "writeVarint64",
                            "write", Num(input.off), res.ret.n),
                   [input EXCEPT !.written = res.ret])

\* bb.readVarint64(input.off), or the zig-zag reader
Varint64Read ==
  /\ ops = 1
  /\ input.t = "varint64"
  /\ Call(IF input.zz THEN readVarint64ZigZag(Entry(0), Num(input.off))
                      ELSE readVarint64(Entry(0), Num(input.off)),
          Desc(IF input.zz THEN "readVarint64ZigZag" ELSE "readVarint64", "read",
               Num(input.off), EncodedVarintLen(buffer, input.off)))

NextVarint64 == Varint64Write \/ Varint64Read

SpecVarint64 == InitVarint64 /\ [][NextVarint64]_vars

(***************************************************************************)
(* The bit set codec on its own: an array of booleans is drawn, written at *)
(* the write cursor of a new buffer and read back at the read cursor.      *)
(***************************************************************************)
MaxBits == 9

RECURSIVE BoolSeqs(_)
BoolSeqs(n) ==
  IF n = 0 THEN {<<>>}
  ELSE BoolSeqs(n - 1) \cup {Append(a, x) : a \in {s \in BoolSeqs(n - 1) : Len(s) = n - 1},
                                           x \in BOOLEAN}

InitBitSet ==
  /\ noAssert \in BOOLEAN
  /\ \E c \in 0..MaxInitCap, fresh \in Uninit :
        buffer = SmartBuffer(c, noAssert, fresh).buffer
  /\ input \in {[t |-> "bitset", a |-> a] : a \in BoolSeqs(MaxBits)}
  /\ roffset = 0
  /\ woffset = 0
  /\ other = wrap(OtherInput, FALSE)
  /\ old = [buffer |-> buffer, roffset |-> roffset, woffset |-> woffset, other |-> other]
  /\ last = NoCall
  /\ ops = 0

\* bb.writeBitSet(input.a)
BitSetWrite ==
  /\ ops = 0
  /\ input.t = "bitset"
  /\ \E fresh \in Uninit :
       Call(writeBitSet(Entry(fresh), Arr(input.a), Undefined),
            Desc("writeBitSet", "write", Undefined,
                 calculateVarint32(Len(input.a)) + ((Len(input.a) + 7) \div 8)))

\* bb.readBitSet()
BitSetRead ==
  /\ ops = 1
  /\ input.t = "bitset"
  /\ Call(readBitSet(Entry(0), Undefined),
          Desc("readBitSet", "read", Undefined,
               calculateVarint32(Len(input.a)) + ((Len(input.a) + 7) \div 8)))

NextBitSet == BitSetWrite \/ BitSetRead

SpecBitSet == InitBitSet /\ [][NextBitSet]_vars

(***************************************************************************)
(* The fixed-width accessors on their own: a type, a value of the type and *)
(* an offset inside the store are drawn, the value is written at the       *)
(* offset and read back with the reader of the same type.                  *)
(***************************************************************************)
IntTypes ==
  {IntType("Int8", 1, TRUE, TRUE), IntType("UInt8", 1, FALSE, TRUE),
   IntType("Int16LE", 2, TRUE, TRUE), IntType("Int16BE", 2, TRUE, FALSE),
   IntType("UInt16LE", 2, FALSE, TRUE), IntType("UInt16BE", 2, FALSE, FALSE),
   IntType("UInt24BE", 3, FALSE, FALSE),
   IntType("Int32LE", 4, TRUE, TRUE), IntType("Int32BE", 4, TRUE, FALSE),
   IntType("UInt32LE", 4, FALSE, TRUE), IntType("UInt32BE", 4, FALSE, FALSE),
   IntType("Int64LE", 8, TRUE, TRUE), IntType("Int64BE", 8, TRUE, FALSE),
   IntType("UInt64LE", 8, FALSE, TRUE), IntType("UInt64BE", 8, FALSE, FALSE)}

\* 32 bits with four different bytes, and the extremes
Bits32Samples ==
  {0, 1, -1, 255, 256, 65535, 65536, 16777215, 16777216, 305419896, -19088744,
   2147483647, (-2147483647) - 1, -2147483647}

\* values of a type: every value of the 8-bit types, values around each byte
\* boundary and the extremes of the wider ones
ValuesOf(ty) ==
  IF ty.bytes = 1 THEN {Num(n) : n \in IF ty.signed THEN -128..127 ELSE 0..255}
  ELSE IF ty.bytes = 2
  THEN {Num(n) : n \in IF ty.signed THEN {-32768, -32767, -4660, -257, -256, -1, 0, 1, 255,
                                           256, 4660, 32767}
                       ELSE {0, 1, 255, 256, 4660, 32767, 32768, 43981, 65535}}
  ELSE IF ty.bytes = 3
  THEN {Num(n) : n \in {0, 1, 255, 256, 65535, 65536, 1193046, 8388607, 8388608, 16777215}}
  ELSE IF ty.bytes = 4
  THEN {IF ty.signed THEN Num(n) ELSE UNum(n) : n \in Bits32Samples}
  ELSE {Long(w[1], w[2], ~ty.signed) : w \in LongSamples}

InitFixed ==
  /\ noAssert \in BOOLEAN
  /\ \E c \in 0..MaxInitCap, fresh \in Uninit :
        /\ buffer = SmartBuffer(c, noAssert, fresh).buffer
        /\ input \in {[t |-> "fixed", ty |-> ty, v |-> v, off |-> off] :
                        ty \in IntTypes, v \in UNION {ValuesOf(y) : y \in IntTypes},
                        off \in 0..Min(c, MaxOffset)}
        /\ input.v \in ValuesOf(input.ty)
  /\ roffset = 0
  /\ woffset = 0
  /\ other = wrap(OtherInput, FALSE)
  /\ old = [buffer |-> buffer, roffset |-> roffset, woffset |-> woffset, other |-> other]
  /\ last = NoCall
  /\ ops = 0

\* bb.write<name>(input.v, input.off)
FixedWrite ==
  /\ ops = 0
  /\ input.t = "fixed"
  /\ \E fresh \in Uninit :
       Call(WriteFixed(input.ty, Entry(fresh), input.v, Num(input.off)),
            Desc("write" \o input.ty.name, "write", Num(input.off), input.ty.bytes))

\* bb.read<name>(input.off)
FixedRead ==
  /\ ops = 1
  /\ input.t = "fixed"
  /\ Call(ReadFixed(input.ty, Entry(0), Num(input.off)),
          Desc("read" \o input.ty.name, "read", Num(input.off), input.ty.bytes))

NextFixed == FixedWrite \/ FixedRead

SpecFixed == InitFixed /\ [][NextFixed]_vars

(***************************************************************************)
(* concat on its own: a list of up to MaxBuffers elements is drawn, each a *)
(* SmartBuffer with its cursors inside its store or an array of octets,    *)
(* and concatenated into bb.                                               *)
(***************************************************************************)
MaxBuffers == 2

ConcatStores == {<<>>, <<1, 2>>, <<3, 4>>}

ConcatElements ==
  {[buffer |-> s, roffset |-> r, woffset |-> w, noAssert |-> FALSE] :
     s \in ConcatStores, r \in 0..2, w \in 0..2}
  \cup {Arr(<<>>), Arr(<<5>>)}

RECURSIVE ConcatLists(_)
ConcatLists(n) ==
  IF n = 0 THEN {<<>>}
  ELSE ConcatLists(n - 1) \cup {Append(l, x) : l \in {s \in ConcatLists(n - 1) : Len(s) = n - 1},
                                             x \in ConcatElements}

InitConcat ==
  /\ input \in {[t |-> "concat", buffers |-> l, noAssert |-> na] :
                  l \in ConcatLists(MaxBuffers), na \in BOOLEAN}
  /\ \A i \in 1..Len(input.buffers) :
        IsSmartBuffer(input.buffers[i]) =>
           /\ input.buffers[i].roffset <= Len(input.buffers[i].buffer)
           /\ input.buffers[i].woffset <= Len(input.buffers[i].buffer)
  /\ buffer = <<>>
  /\ roffset = 0
  /\ woffset = 0
  /\ noAssert = input.noAssert
  /\ other = wrap(OtherInput, FALSE)
  /\ old = [buffer |-> buffer, roffset |-> roffset, woffset |-> woffset, other |-> other]
  /\ last = NoCall
  /\ ops = 0

\* bb = SmartBuffer.concat(input.buffers, input.noAssert)
Concat ==
  /\ ops = 0
  /\ input.t = "concat"
  /\ \E fresh \in Uninit :
       Call(Enter(concat(input.buffers, input.noAssert, fresh), other, fresh),
            Desc("concat", "other", Undefined, 0))

NextConcat == Concat

SpecConcat == InitConcat /\ [][NextConcat]_vars

(***************************************************************************)
(* slice on its own: a source over SliceStore with its cursors anywhere in *)
(* the store (one past it without assertions), a slice of it, and a byte   *)
(* written in place through the slice or through the source.               *)
(***************************************************************************)
SliceStore == <<1, 2, 3>>

InitSlice ==
  /\ noAssert \in BOOLEAN
  /\ buffer = SliceStore
  /\ roffset \in 0..Len(SliceStore)
  /\ woffset \in 0..(Len(SliceStore) + (IF noAssert THEN 1 ELSE 0))
  /\ other = wrap(OtherInput, FALSE)
  /\ old = [buffer |-> buffer, roffset |-> roffset, woffset |-> woffset, other |-> other]
  /\ last = NoCall
  /\ ops = 0
  /\ input = [t |-> "slice", b2 |-> Undefined]

\* b2 = bb.slice(begin, end)
SliceCall ==
  /\ ops = 0
  /\ input.t = "slice"
  /\ \E begin \in {Undefined} \cup {Num(i) : i \in 0..MaxOffset},
        end \in {Undefined} \cup {Num(i) : i \in 1..(Len(SliceStore) + 1)} :
       LET res == slice(Entry(0), begin, end)
       IN CallWith(res, DescArgs("slice", "other", Undefined, 0, <<begin, end>>),
                   [input EXCEPT !.b2 = IF Ok(res) THEN res.ret ELSE Undefined])

\* b2.writeInt8(value, i), i inside b2
SliceWrite ==
  /\ ops >= 1 /\ ops < MaxOps
  /\ input.t = "slice"
  /\ ~IsUndefined(input.b2)
  /\ \E i \in 0..(input.b2.store.len - 1), value \in {Num(7), Num(-1)}, fresh \in Uninit :
       LET w == WriteThroughView(buffer, input.b2, value, i, fresh)
       IN CallWith([Entry(fresh) EXCEPT !.buffer = w.heap, !.ret = This],
                   DescArgs("b2.writeInt8", "view", Num(i), 1, <<value>>),
                   [input EXCEPT !.b2 = w.slice])

\* bb.writeInt8(value, j), j inside the store of bb
SourceWrite ==
  /\ ops >= 1 /\ ops < MaxOps
  /\ input.t = "slice"
  /\ ~IsUndefined(input.b2)
  /\ \E j \in 0..(Len(buffer) - 1), value \in {Num(7), Num(-1)}, fresh \in Uninit :
       Call(writeInt8(Entry(fresh), value, Num(j)),
            DescArgs("writeInt8", "source", Num(j), 1, <<value>>))

NextSlice == SliceCall \/ SliceWrite \/ SourceWrite

SpecSlice == InitSlice /\ [][NextSlice]_vars

(***************************************************************************)
(* clone on its own: a buffer, a clone of it (other) and writes of one     *)
(* byte through either of them.  input.shares tells whether the two have   *)
(* the same Buffer object, in which case their stores are kept equal;      *)
(* input.capacity is the capacity when the clone was made.                 *)
(***************************************************************************)
MaxCloneOps == 3

InitClone ==
  /\ noAssert \in BOOLEAN
  /\ \E b0 \in {SmartBuffer(c, noAssert, fresh) : c \in 0..MaxInitCap, fresh \in Uninit}
                 \cup {wrap(bytes, noAssert) : bytes \in WrapInputs} :
        /\ buffer = b0.buffer
        /\ roffset = b0.roffset
        /\ woffset = b0.woffset
  /\ other = wrap(OtherInput, FALSE)
  /\ old = [buffer |-> buffer, roffset |-> roffset, woffset |-> woffset, other |-> other]
  /\ last = NoCall
  /\ ops = 0
  /\ input = [t |-> "clone", cloned |-> FALSE, copy |-> FALSE, shares |-> FALSE,
              capacity |-> 0]

\* other = bb.clone(copy)
CloneCall ==
  /\ ops = 0
  /\ input.t = "clone"
  /\ \E deep \in BOOLEAN, fresh \in Uninit :
       LET res == clone(Entry(fresh), deep)
       IN CallWith([res EXCEPT !.other = [buffer |-> res.ret.buffer,
                                          roffset |-> res.ret.roffset,
                                          woffset |-> res.ret.woffset,
                                          noAssert |-> res.ret.noAssert]],
                   DescArgs("clone", "other", Undefined, 0, <<deep>>),
                   [input EXCEPT !.cloned = TRUE, !.copy = deep, !.shares = res.ret.shares,
                                 !.capacity = Len(buffer)])

\* bb.writeInt8(value, offset)
CloneWrite ==
  /\ ops >= 1 /\ ops < MaxCloneOps
  /\ input.t = "clone"
  /\ \E offset \in IntOffsets, value \in {Num(7), Num(-1)}, fresh \in Uninit :
       LET res == writeInt8(Entry(fresh), value, offset)
           still == StillShared(input.shares, buffer, res)
       IN CallWith([res EXCEPT !.other = IF still THEN [other EXCEPT !.buffer = res.buffer]
                                          ELSE other],
                   DescArgs("writeInt8", "first", offset, 1, <<value>>),
                   [input EXCEPT !.shares = still])

\* other.writeInt8(value, offset)
CloneWriteOther ==
  /\ ops >= 1 /\ ops < MaxCloneOps
  /\ input.t = "clone"
  /\ \E offset \in IntOffsets, value \in {Num(7), Num(-1)}, fresh \in Uninit :
       LET res == writeInt8(Enter(other, bb, fresh), value, offset)
           still == StillShared(input.shares, other.buffer, res)
       IN CallWith([Entry(fresh) EXCEPT !.buffer = IF still THEN res.buffer ELSE buffer,
                                        !.other = Fields(res),
                                        !.err = res.err, !.ret = res.ret],
                   DescArgs("writeInt8", "second", offset, 1, <<value>>),
                   [input EXCEPT !.shares = still])

NextClone == CloneCall \/ CloneWrite \/ CloneWriteOther

SpecClone == InitClone /\ [][NextClone]_vars

(***************************************************************************)
(* Properties of the calls, stated on the state after the last call:       *)
(* old is the object before it, last describes it.                         *)
(***************************************************************************)
OldCapacity == Len(old.buffer)

\* the offset the last call worked at, and the end of the bytes it is
\* documented to consume or produce
LastStart == StartOf(last.offset, IF last.kind = "write" \/ last.kind = "fill"
                                  THEN old.woffset ELSE old.roffset)
LastEnd == LastStart + last.n

\* the last call is a write that returned and whose end is beyond the old capacity
GrowingWrite ==
  /\ last.kind = "write"
  /\ last.err = "none"
  /\ last.n > 0
  /\ LastEnd > OldCapacity

\* every byte below the old capacity and outside [LastStart, LastEnd) is as before
BytesPreserved ==
  \A i \in 0..(OldCapacity - 1) :
     (i < LastStart \/ i >= LastEnd) => (i < Len(buffer) /\ buffer[i + 1] = old.buffer[i + 1])

\* C1 as the claim states it: a write that ends at s beyond the old capacity
\* leaves a capacity of exactly max(2 * old capacity, s) and keeps every byte
\* below the old capacity outside the written range.
C1_GrowthExact ==
  GrowingWrite => (Len(buffer) = Max(2 * OldCapacity, LastEnd) /\ BytesPreserved)

\* C1, amended: every write but writeBitSet that ends at s beyond the old
\* capacity leaves a capacity of exactly max(2 * old capacity, s); writeBitSet,
\* which grows once for its length prefix and once more for each byte it
\* stores, leaves a capacity of at least that; either way every byte below the
\* old capacity outside the written range is kept.
C1_GrowthPerWrite ==
  GrowingWrite =>
    /\ last.op # "writeBitSet" => Len(buffer) = Max(2 * OldCapacity, LastEnd)
    /\ last.op = "writeBitSet" => Len(buffer) >= Max(2 * OldCapacity, LastEnd)
    /\ BytesPreserved

\* a writeBitSet that grew the store in two steps
C1_Witness ==
  /\ GrowingWrite
  /\ last.op = "writeBitSet"
  /\ Len(buffer) > Max(2 * OldCapacity, LastEnd)

\* a call that took no offset argument and returned
RelativeCall == IsUndefined(last.offset) /\ last.err = "none"

\* C2 as the claim states it: a relative read that returns moves roffset
\* forward by the bytes it consumed and keeps woffset; a relative write that
\* returns moves woffset forward by the bytes it produced and keeps roffset.
\* last.n is -1 when the store holds no complete encoding at the cursor, so no
\* count of consumed bytes exists.
C2_RelativeAdvance ==
  /\ (RelativeCall /\ last.kind = "read") =>
        (last.n >= 0 /\ roffset = old.roffset + last.n /\ woffset = old.woffset)
  /\ (RelativeCall /\ last.kind \in {"write", "fill"}) =>
        (woffset = old.woffset + last.n /\ roffset = old.roffset)

\* a call that was given an offset
ExplicitCall ==
  /\ last.kind \in {"read", "write", "fill", "prepend"}
  /\ ~IsUndefined(last.offset)

\* C3 as the claim states it: a call with an explicit offset leaves roffset and
\* woffset as they were.
C3_ExplicitKeepsCursors ==
  ExplicitCall => (roffset = old.roffset /\ woffset = old.woffset)

\* the bytes an explicit prepend lacks before its offset
PrependShortfall ==
  IF last.op = "prepend" /\ last.err = "none" /\ ~IsUndefined(last.offset)
  THEN Max(0, last.n - ToUint32(last.offset))
  ELSE 0

\* C3, amended: a call with an explicit offset leaves roffset and woffset as
\* they were, except a prepend whose source is longer than the room before the
\* offset, which moves both cursors forward by the shortfall.
C3_ExplicitKeepsCursorsButPrepend ==
  ExplicitCall => (roffset = old.roffset + PrependShortfall
                   /\ woffset = old.woffset + PrependShortfall)

\* a prepend at an explicit offset that had to make room
C3_Witness ==
  /\ ExplicitCall
  /\ last.op = "prepend"
  /\ PrependShortfall > 0
  /\ roffset = old.roffset + PrependShortfall

\* C4 as the claim states it: with assertions on, a call that raises a type
\* error leaves bytes, capacity, roffset and woffset as they were.
C4_TypeErrorKeepsState ==
  (~noAssert /\ last.err = "TypeError") =>
     (buffer = old.buffer /\ roffset = old.roffset /\ woffset = old.woffset)

\* C5 as the claim states it: with assertions on, both cursors are within
\* 0..capacity in every reachable state, the states after a throw included.
C5_CursorsWithinCapacity ==
  ~noAssert => (/\ 0 <= roffset /\ roffset <= Len(buffer)
                /\ 0 <= woffset /\ woffset <= Len(buffer))

\* the calls C6 names
NamedUnchecked == {"copyTo", "readCString", "readString", "readVarint64", "toBase64", "toBinary"}

BadRange(begin, end) ==
  LET b == StartOf(begin, old.roffset)
      e == StartOf(end, old.woffset)
  IN b < 0 \/ e > Len(old.buffer) \/ b > e

\* the target offset or the source range copyTo refuses
BadCopy(targetOffset, sourceStart, sourceEnd) ==
  LET t == StartOf(targetOffset, old.other.woffset)
      b == StartOf(sourceStart, old.roffset)
      e == StartOf(sourceEnd, old.woffset)
  IN t < 0 \/ t > Len(old.other.buffer) \/ b < 0 \/ e > Len(old.buffer)

C7_DebugRoundTrip ==
  (roffset \in 0..Len(buffer) /\ woffset \in 0..Len(buffer)) =>
     \A fresh \in Uninit :
        LET r == fromDebug(toDebug(bb), FALSE, fresh)
        IN /\ r.err = "none"
           /\ r.bb.buffer = buffer
           /\ r.bb.roffset = roffset
           /\ r.bb.woffset = woffset

\* fromDebug was called with assertions on
ParsedChecked == ops = 1 /\ input.t = "debug" /\ ~input.noAssert

\* C8 as the claim states it: fromDebug("<61 62 00>") returns a store of 4
\* bytes with roffset 0 and woffset 3.
C8_Scenario ==
  (ParsedChecked /\ input.str = Scenario4) =>
     (last.err = "none" /\ Len(buffer) = 4 /\ roffset = 0 /\ woffset = 3)

\* C8, amended: fromDebug("<61 62 00>") raises a range error, as the string
\* has no end marker and 3 pairs for a capacity of 3 + 1 \div 3; with the
\* fourth byte and the end marker, fromDebug("<61 62 00>00*") returns the
\* store 61 62 00 00 with roffset 0 and woffset 3.
C8_ScenarioTerminated ==
  /\ (ParsedChecked /\ input.str = Scenario4) =>
        (last.err = "RangeError" /\ buffer = <<>>)
  /\ (ParsedChecked /\ input.str = Scenario4Terminated) =>
        (last.err = "none" /\ buffer = <<97, 98, 0, 0>> /\ roffset = 0 /\ woffset = 3)

\* the terminated string was parsed
C8_Witness ==
  /\ ParsedChecked
  /\ input.str = Scenario4Terminated
  /\ Len(buffer) = 4
  /\ woffset = 3

\* the grammar of the debug form: markers and spaces are one character, any
\* other character starts a pair
DebugMarkers == {"|", "]", "[", "^", "<", ">", "*"}

RECURSIVE DebugPairs(_, _)
DebugPairs(str, i) ==
  IF i > Len(str) THEN <<>>
  ELSE IF str[i] \in DebugMarkers \cup {" "} THEN DebugPairs(str, i + 1)
  ELSE <<<<str[i], IF i < Len(str) THEN str[i + 1] ELSE "">>>> \o DebugPairs(str, i + 2)

IsHexChar(ch) == \E d \in 1..16 : HexDigits[d] = ch \/ LowerHexDigits[d] = ch

NonHexPair(str) ==
  \E k \in 1..Len(DebugPairs(str, 1)) :
     ~IsHexChar(DebugPairs(str, 1)[k][1]) \/ ~IsHexChar(DebugPairs(str, 1)[k][2])

MarkerCount(str, markers) == Cardinality({i \in 1..Len(str) : str[i] \in markers})

\* the markers that give the read cursor, the write cursor and the end
ReadMarkers == {"|", "^", "<", "["}
WriteMarkers == {"|", "^", ">", "]"}
EndMarkers == {"|", "]", "[", "*"}

DuplicateMarker(str) ==
  \E m \in {ReadMarkers, WriteMarkers, EndMarkers} : MarkerCount(str, m) > 1

MissingMarker(str) ==
  \E m \in {ReadMarkers, WriteMarkers, EndMarkers} : MarkerCount(str, m) = 0

WrongPairCount(str) == Len(DebugPairs(str, 1)) # DebugCapacity(Len(str))

Malformed(str) ==
  NonHexPair(str) \/ DuplicateMarker(str) \/ MissingMarker(str) \/ WrongPairCount(str)

\* C9 as the claim states it: with assertions on, fromDebug raises a range
\* error for a string with a pair that is not two hex digits, a duplicate
\* marker, a missing read, write or end marker, or a pair count that is not
\* the capacity.
C9_MalformedRejected ==
  (ParsedChecked /\ Malformed(input.str)) => last.err = "RangeError"

\* C10: writeVarint32ZigZag(n, off) followed by readVarint32ZigZag(off)
\* returns n, and the count the write returns and the length the read returns
\* are both calculateVarint32(zigZagEncode32(n)), a number from 1 to
\* MAX_VARINT32_BYTES.
C10_ZigZagRoundTrip ==
  /\ (input.t = "varint" /\ ops >= 1) =>
        /\ ~IsUndefined(input.written)
        /\ input.written.n = calculateVarint32(zigZagEncode32(input.n))
        /\ input.written.n \in 1..MAX_VARINT32_BYTES
  /\ (input.t = "varint" /\ ops = 2) =>
        /\ last.err = "none"
        /\ last.ret.value = input.n
        /\ last.ret.length = input.written.n
        /\ last.ret.length = last.n

\* the smallest int32 was written in five bytes and read back
C10_Witness ==
  /\ input.t = "varint"
  /\ ops = 2
  /\ input.n = (-2147483647) - 1
  /\ last.ret.value = input.n
  /\ last.ret.length = MAX_VARINT32_BYTES

\* the offset argument of the last call is omitted or an integer
OffsetGiven == IsUndefined(last.offset) \/ IsInteger(last.offset)

\* C11 as the claim states it: with assertions on, readVarint32 at an offset
\* inside the store, where every byte from the offset to the end of the store
\* has the continuation bit set, raises the error "Truncated".
C11_TruncatedRaised ==
  (/\ ~noAssert
   /\ last.op = "readVarint32"
   /\ OffsetGiven
   /\ LastStart >= 0 /\ LastStart < Len(old.buffer)
   /\ EncodedVarintLen(old.buffer, LastStart) = -1) => last.err = "Truncated"

\* the 64 bits of a Long as its two words
Bits64(v) == <<v.low, v.high>>

\* the number of 7-bit groups the 64 bits of a Long need, counted from the
\* words without the part split of the writer
Groups64(v) ==
  IF v.high < 0 THEN 10
  ELSE IF v.high >= 16777216 THEN 9
  ELSE IF v.high >= 131072 THEN 8
  ELSE IF v.high >= 1024 THEN 7
  ELSE IF v.high >= 8 THEN 6
  ELSE IF v.high >= 1 \/ v.low < 0 \/ v.low >= 268435456 THEN 5
  ELSE IF v.low >= 2097152 THEN 4
  ELSE IF v.low >= 16384 THEN 3
  ELSE IF v.low >= 128 THEN 2
  ELSE 1

\* C12: writeVarint64(v, off) returns calculateVarint64(v), a number from 1 to
\* 10, and readVarint64(off) then returns the same 64 bits as a signed Long
\* with the same length; writeVarint64ZigZag(v, off) followed by
\* readVarint64ZigZag(off) does the same for a signed v, the length being that
\* of the zig-zag encoding of v.
C12_Varint64RoundTrip ==
  /\ (input.t = "varint64" /\ ops >= 1) =>
        /\ ~IsUndefined(input.written)
        /\ input.written.n =
             calculateVarint64(IF input.zz THEN zigZagEncode64(input.v) ELSE input.v)
        /\ input.written.n =
             Groups64(IF input.zz THEN zigZagEncode64(input.v) ELSE input.v)
        /\ input.written.n \in 1..10
  /\ (input.t = "varint64" /\ ops = 2) =>
        /\ last.err = "none"
        /\ Bits64(last.ret.value) = Bits64(input.v)
        /\ ~last.ret.value.unsigned
        /\ last.ret.length = input.written.n
        /\ last.ret.length = last.n

\* an unsigned Long with every bit set was written in ten bytes and read back
\* as the signed -1
C12_Witness ==
  /\ input.t = "varint64"
  /\ ops = 2
  /\ ~input.zz
  /\ input.v = Long(-1, -1, TRUE)
  /\ last.ret.value = Long(-1, -1, FALSE)
  /\ last.ret.length = 10

\* the smallest signed Long went through the zig-zag codec in ten bytes
C12_WitnessZigZag ==
  /\ input.t = "varint64"
  /\ ops = 2
  /\ input.zz
  /\ input.v = Long(0, (-2147483647) - 1, FALSE)
  /\ last.ret.value = input.v
  /\ last.ret.length = 10

\* C13 as the claim states it: a relative writeBitSet(a) followed by a relative
\* readBitSet() returns a, element by element, and the read consumes exactly
\* the bytes written: the varint32 bit count plus ceil(Len(a) / 8) bytes.
C13_BitSetRoundTrip ==
  (input.t = "bitset" /\ ops = 2) =>
     /\ last.err = "none"
     /\ last.ret = Arr(input.a)
     /\ roffset - old.roffset = last.n
     /\ roffset = woffset

\* C14: for each of the fixed-width integer types (8, 16, 32 and 64 bits,
\* signed and unsigned, little and big endian, and UInt24BE) and each value v
\* of the type, write<type>(v, off) followed by read<type>(off) returns v, and
\* neither call moves a cursor.
C14_FixedRoundTrip ==
  /\ (input.t = "fixed" /\ ops >= 1) => last.err = "none"
  /\ (input.t = "fixed" /\ ops = 2) =>
        /\ last.ret = input.v
        /\ roffset = 0 /\ woffset = 0

\* the largest unsigned 32-bit value went through the big-endian pair
C14_Witness ==
  /\ input.t = "fixed"
  /\ ops = 2
  /\ input.ty.name = "UInt32BE"
  /\ input.v = UNum(-1)
  /\ last.op = "readUInt32BE"
  /\ last.ret = input.v
  /\ Slice(buffer, input.off, input.off + 4) = <<255, 255, 255, 255>>

\* the ranges of the last copyTo: target offset, source start, source end and
\* the number of bytes in [source start, source end)
CopyTargetOffset ==
  IF IsUndefined(last.args[2]) THEN old.other.woffset ELSE ToInt32(last.args[2])
CopySourceStart ==
  IF IsUndefined(last.args[3]) THEN old.roffset ELSE ToInt32(last.args[3])
CopySourceEnd ==
  IF IsUndefined(last.args[4]) THEN old.woffset ELSE ToInt32(last.args[4])
CopiedLength == Max(0, CopySourceEnd - CopySourceStart)

\* the last call was a copyTo that returned
CopyReturned == last.op = "copyTo" /\ last.err = "none"

\* what copyTo leaves after copying CopiedLength bytes: the bytes are in the
\* target at the target offset, the rest of the target and the source store
\* are as before, and a cursor moves by the copied length exactly when its
\* argument was omitted
CopyEffect ==
  /\ Slice(other.buffer, CopyTargetOffset, CopyTargetOffset + CopiedLength)
       = Slice(old.buffer, CopySourceStart, CopySourceEnd)
  /\ CopiedLength <= Len(other.buffer) - CopyTargetOffset
  /\ \A i \in 1..Len(old.other.buffer) :
        (i <= CopyTargetOffset \/ i > CopyTargetOffset + CopiedLength)
          => other.buffer[i] = old.other.buffer[i]
  /\ buffer = old.buffer
  /\ woffset = old.woffset
  /\ other.roffset = old.other.roffset
  /\ other.woffset = old.other.woffset +
                       (IF IsUndefined(last.args[2]) THEN CopiedLength ELSE 0)
  /\ roffset = old.roffset + (IF IsUndefined(last.args[3]) THEN CopiedLength ELSE 0)

\* C15 as the claim states it: a copyTo that returns has copied the source
\* bytes [sourceStart, sourceEnd) to the target at targetOffset; target.woffset
\* grows by the copied length only when targetOffset is omitted, the source's
\* roffset grows by the copied length only when sourceStart is omitted, and no
\* other cursor changes.
C15_CopyTo == CopyReturned => CopyEffect

\* C15 for a source range that is not inverted
C15_CopyToOrdered ==
  (CopyReturned /\ CopySourceStart <= CopySourceEnd) => CopyEffect

\* the last call was b.write(src) with src the other SmartBuffer, and returned
WroteBuffer == last.op = "write" /\ last.err = "none" /\ last.args = <<Other>>

\* the readable bytes of src before the call
SourceReadable == Slice(old.other.buffer, old.other.roffset, old.other.woffset)

\* C16: b.write(src) of a SmartBuffer src with n > 0 readable bytes stores
\* these bytes in b at the target offset, growing b if needed, and keeps the
\* other bytes of b; src.roffset ends at src.woffset in relative and absolute
\* mode; b.woffset advances by n in relative mode only; b.roffset, src.woffset
\* and the store of src do not change.  With no readable bytes in src nothing
\* changes in either buffer.
C16_WriteBuffer ==
  /\ (WroteBuffer /\ old.other.woffset - old.other.roffset > 0) =>
        /\ Len(SourceReadable) = last.n
        /\ Slice(buffer, LastStart, LastEnd) = SourceReadable
        /\ LastEnd <= Len(buffer)
        /\ BytesPreserved
        /\ other = [old.other EXCEPT !.roffset = old.other.woffset]
        /\ woffset = old.woffset + (IF IsUndefined(last.offset) THEN last.n ELSE 0)
        /\ roffset = old.roffset
  /\ (WroteBuffer /\ old.other.woffset - old.other.roffset <= 0) =>
        /\ buffer = old.buffer /\ roffset = old.roffset /\ woffset = old.woffset
        /\ other = old.other

\* an absolute write of one readable byte beyond the capacity: b grew, src was
\* consumed, b.woffset stayed
C16_Witness ==
  /\ WroteBuffer
  /\ ~IsUndefined(last.offset)
  /\ last.n = 1
  /\ LastEnd > OldCapacity
  /\ other.roffset = other.woffset
  /\ old.other.roffset < old.other.woffset
  /\ woffset = old.woffset

\* the last call was a relative prepend that returned after prepending bytes
RelativePrepend ==
  last.op = "prepend" /\ last.err = "none" /\ IsUndefined(last.offset) /\ last.n > 0

\* the bytes the last prepend took from its source: the bytes of src from
\* src.roffset to the end of its store, or the UTF-8 bytes of a string
Prepended ==
  IF last.args = <<Other>>
  THEN Slice(old.other.buffer, old.other.roffset, Len(old.other.buffer))
  ELSE UTF8Bytes(last.args[1].s)

\* what a relative prepend of last.n bytes leaves
PrependEffect ==
  /\ Len(Prepended) = last.n
  /\ Slice(buffer, roffset, woffset) = Prepended \o Slice(old.buffer, old.roffset, old.woffset)
  /\ woffset - roffset = (old.woffset - old.roffset) + last.n
  /\ last.args = <<Other>> => other = [old.other EXCEPT !.roffset = Len(old.other.buffer)]
  /\ old.roffset < last.n =>
        /\ Len(buffer) = Len(old.buffer) + (last.n - old.roffset)
        /\ roffset = 0

\* C17 on every buffer, whatever its cursors
C17_PrependAnyCursors == RelativePrepend => PrependEffect

\* C17: after a relative prepend of n > 0 bytes to a buffer whose readable
\* region is [roffset, woffset) with roffset <= woffset, the
\* readable region is the n prepended bytes followed by the previous readable
\* bytes, the length has grown by n, a SmartBuffer source has its roffset at
\* its capacity, and when fewer than n bytes were free before roffset the
\* capacity has grown by the shortfall and roffset is 0.
C17_Prepend == (RelativePrepend /\ old.roffset <= old.woffset) => PrependEffect

\* a SmartBuffer source was prepended to a buffer with readable bytes and too
\* little room before roffset: the store grew and roffset is 0
C17_Witness ==
  /\ RelativePrepend
  /\ last.args = <<Other>>
  /\ old.roffset < old.woffset
  /\ old.roffset < last.n
  /\ Len(buffer) > Len(old.buffer)
  /\ roffset = 0
  /\ other.roffset = Len(other.buffer)

\* the readable region of an element of the list given to concat
ReadableOf(x) ==
  IF IsSmartBuffer(x) THEN Slice(x.buffer, x.roffset, x.woffset) ELSE x.a

\* the readable regions of a list, one after the other
RECURSIVE ReadableRegions(_)
ReadableRegions(l) ==
  IF l = <<>> THEN <<>> ELSE ReadableOf(Head(l)) \o ReadableRegions(Tail(l))

\* the sum of the readable lengths of a list, a length counted when positive
RECURSIVE ReadableLengths(_)
ReadableLengths(l) ==
  IF l = <<>> THEN 0
  ELSE (IF IsSmartBuffer(Head(l)) THEN Max(0, Head(l).woffset - Head(l).roffset)
        ELSE Len(Head(l).a))
       + ReadableLengths(Tail(l))

\* C18: concat(buffers) returns a buffer whose capacity is the sum of the
\* readable lengths of the inputs (a length counted when positive), whose
\* bytes are the readable regions of the inputs in input order, with roffset 0
\* and woffset at the capacity; an empty list, or inputs without readable
\* bytes, give a buffer of capacity 0 with both cursors 0.
C18_Concat ==
  (input.t = "concat" /\ ops = 1) =>
     /\ last.err = "none"
     /\ Len(buffer) = ReadableLengths(input.buffers)
     /\ buffer = ReadableRegions(input.buffers)
     /\ roffset = 0
     /\ woffset = Len(buffer)
     /\ ReadableRegions(input.buffers) = <<>> =>
          (Len(buffer) = 0 /\ roffset = 0 /\ woffset = 0)

\* a buffer with inverted cursors contributed nothing and the one after it
\* contributed its readable region [1, 2)
C18_Witness ==
  /\ input.t = "concat"
  /\ ops = 1
  /\ input.buffers = <<[buffer |-> <<1, 2>>, roffset |-> 2, woffset |-> 1, noAssert |-> FALSE],
                       [buffer |-> <<3, 4>>, roffset |-> 1, woffset |-> 2, noAssert |-> FALSE]>>
  /\ buffer = <<4>>
  /\ woffset = 1

\* the range of the last compact: begin defaults to roffset, end to the capacity
CompactBegin == StartOf(last.args[1], old.roffset)
CompactEnd == StartOf(last.args[2], Len(old.buffer))

\* the last call was a compact that returned, on a range inside the store
Compacted ==
  /\ last.op = "compact"
  /\ last.err = "none"
  /\ 0 <= CompactBegin /\ CompactBegin <= CompactEnd /\ CompactEnd <= Len(old.buffer)

\* C19 as the claim states it: after compact(begin, end) with
\* 0 <= begin <= end <= capacity the store has capacity end - begin and holds
\* the old bytes [begin, end), roffset is 0 and woffset is the old woffset
\* minus begin, for explicit arguments as well as for the defaults.
C19_Compact ==
  Compacted =>
     /\ buffer = Slice(old.buffer, CompactBegin, CompactEnd)
     /\ Len(buffer) = CompactEnd - CompactBegin
     /\ roffset = 0
     /\ woffset = old.woffset - CompactBegin

\* the store alone: capacity end - begin and the old bytes [begin, end)
C19_CompactStore ==
  Compacted =>
     /\ buffer = Slice(old.buffer, CompactBegin, CompactEnd)
     /\ Len(buffer) = CompactEnd - CompactBegin

\* the range of the slice call: begin defaults to roffset, end to woffset
SliceBegin == StartOf(last.args[1], old.roffset)
SliceEnd == StartOf(last.args[2], old.woffset)

\* what a slice call that returned leaves: a buffer b2 of capacity
\* end - begin showing the bytes [begin, end) of the source, its cursors at 0
\* and at its capacity, and the source as it was
SliceEffect ==
  /\ input.b2.store.len = SliceEnd - SliceBegin
  /\ ViewBytes(buffer, input.b2.store) = Slice(buffer, SliceBegin, SliceEnd)
  /\ input.b2.roffset = 0
  /\ input.b2.woffset = input.b2.store.len
  /\ buffer = old.buffer /\ roffset = old.roffset /\ woffset = old.woffset

\* a byte written in place on one side shows on the other: b2 at i is the
\* source at base + i
SliceAliased ==
  /\ last.op = "b2.writeInt8" =>
        /\ buffer[input.b2.store.base + last.offset.n + 1] = U8(last.args[1].n)
        /\ ViewBytes(buffer, input.b2.store)[last.offset.n + 1] = U8(last.args[1].n)
        /\ roffset = old.roffset /\ woffset = old.woffset
  /\ (/\ last.op = "writeInt8"
      /\ last.offset.n >= input.b2.store.base
      /\ last.offset.n < input.b2.store.base + input.b2.store.len) =>
        ViewBytes(buffer, input.b2.store)[last.offset.n - input.b2.store.base + 1]
          = U8(last.args[1].n)

Writer == IF last.kind = "first" THEN bb ELSE other
Bystander == IF last.kind = "first" THEN other ELSE bb
WriterBefore ==
  IF last.kind = "first"
  THEN [buffer |-> old.buffer, roffset |-> old.roffset, woffset |-> old.woffset]
  ELSE old.other
BystanderBefore ==
  IF last.kind = "first" THEN old.other
  ELSE [buffer |-> old.buffer, roffset |-> old.roffset, woffset |-> old.woffset,
        noAssert |-> noAssert]

\* a byte was written through one of the two buffers
CloneWrote ==
  /\ input.t = "clone" /\ input.cloned
  /\ last.op = "writeInt8" /\ last.err = "none"

\* where that byte went
CloneWriteAt == StartOf(last.offset, WriterBefore.woffset)

\* the clone as it is returned: the cursors and the flag of the source
CloneReturned ==
  (input.t = "clone" /\ last.op = "clone") =>
     /\ other.roffset = roffset /\ other.woffset = woffset
     /\ other.noAssert = noAssert
     /\ other.buffer = buffer
     /\ buffer = old.buffer /\ roffset = old.roffset /\ woffset = old.woffset

\* the byte written through one buffer is the byte of the other at the same offset
WriteVisible ==
  /\ Byte(Writer.buffer, CloneWriteAt) = U8(last.args[1].n)
  /\ Byte(Bystander.buffer, CloneWriteAt) = U8(last.args[1].n)

\* the write left the other buffer as it was
WriteIsolated == Bystander = BystanderBefore

\* C21 as the claim states it: after clone(false) every byte written through
\* one buffer, by any later write, is visible at the same offset through the
\* other; after clone(true) none is; the clone has the cursors and the
\* noAssert flag of the source.
C21_CloneAnyWrites ==
  /\ CloneReturned
  /\ CloneWrote => IF input.copy THEN WriteIsolated ELSE WriteVisible

\* C21: after clone(false) a byte written through one buffer is visible at
\* the same offset through the other as long as no write since the clone has
\* grown the store of either buffer (a write that grows the store gives its
\* buffer a new store and ends the sharing); after clone(true) no write
\* through one changes the other; the clone has the cursors and the noAssert
\* flag of the source.
C21_Clone ==
  /\ CloneReturned
  /\ CloneWrote =>
       IF input.copy THEN WriteIsolated
       ELSE (Len(buffer) = input.capacity /\ Len(other.buffer) = input.capacity) =>
               (WriteVisible /\ buffer = other.buffer)

\* the second write after clone(false), through the clone, changed a byte of
\* the source
C21_Witness ==
  /\ CloneWrote /\ ~input.copy
  /\ ops = MaxCloneOps
  /\ last.kind = "second"
  /\ Len(buffer) = input.capacity /\ Len(other.buffer) = input.capacity
  /\ buffer[CloneWriteAt + 1] = 7
  /\ old.buffer[CloneWriteAt + 1] # 7

\* the last call was skipRead or skipWrite with an integer length
Skipped == last.op \in {"skipRead", "skipWrite"} /\ IsInteger(last.args[1])

\* the cursor the call is about, before and after it, and the other one
SkipCursorBefore == IF last.op = "skipRead" THEN old.roffset ELSE old.woffset
SkipCursor == IF last.op = "skipRead" THEN roffset ELSE woffset
SkipTarget == SkipCursorBefore + last.args[1].n

\* C22: with assertions enabled, skipRead(n) for an integer n sets roffset to
\* roffset + n exactly when 0 <= roffset + n <= capacity and otherwise raises
\* a range error that leaves both cursors unchanged; skipWrite(n) does the
\* same for woffset; without assertions neither throws and the cursor moves
\* to cursor + n, which may lie beyond the capacity.  Neither changes the
\* other cursor or the store, and skipRead may move roffset past woffset.
C22_Skip ==
  Skipped =>
    /\ buffer = old.buffer
    /\ last.op = "skipRead" => woffset = old.woffset
    /\ last.op = "skipWrite" => roffset = old.roffset
    /\ IF noAssert \/ (0 <= SkipTarget /\ SkipTarget <= Len(old.buffer))
       THEN last.err = "none" /\ SkipCursor = SkipTarget
       ELSE last.err = "RangeError" /\ SkipCursor = SkipCursorBefore

\* a checked skipRead moved roffset past woffset: the length is negative
C22_Witness ==
  /\ Skipped /\ last.op = "skipRead" /\ ~noAssert
  /\ last.err = "none"
  /\ old.roffset <= old.woffset
  /\ roffset > woffset
  /\ getLength(bb) < 0

\* an unchecked skipWrite moved woffset beyond the capacity
C22_WitnessUnchecked ==
  /\ Skipped /\ last.op = "skipWrite" /\ noAssert
  /\ woffset > Len(buffer)

\* the last call was ensureCapacity or resize with a capacity that is an
\* integer and not negative
CapacityCall ==
  /\ last.op \in {"ensureCapacity", "resize"}
  /\ IsInteger(last.args[1]) /\ last.args[1].n >= 0

RequiredCapacity == last.args[1].n

\* every byte below the old capacity is as before
StoreKept ==
  /\ Len(buffer) >= OldCapacity
  /\ \A i \in 1..OldCapacity : buffer[i] = old.buffer[i]

\* C23: ensureCapacity(c) leaves the capacity unchanged when capacity >= c
\* and otherwise sets it to max(2 * capacity, c); resize(c) sets the capacity
\* to max(capacity, c); neither shrinks the store, and both leave roffset,
\* woffset and every byte below the old capacity unchanged.
C23_Capacity ==
  CapacityCall =>
    /\ last.err = "none"
    /\ last.op = "ensureCapacity" =>
         Len(buffer) = IF OldCapacity >= RequiredCapacity THEN OldCapacity
                       ELSE Max(2 * OldCapacity, RequiredCapacity)
    /\ last.op = "resize" => Len(buffer) = Max(OldCapacity, RequiredCapacity)
    /\ StoreKept
    /\ roffset = old.roffset /\ woffset = old.woffset

\* ensureCapacity doubled a store of two bytes where three were required
C23_Witness ==
  /\ CapacityCall /\ last.op = "ensureCapacity"
  /\ OldCapacity = 2 /\ RequiredCapacity = 3
  /\ Len(buffer) = 4
  /\ old.buffer = <<1, 97>>
  /\ SubSeq(buffer, 1, 2) = <<1, 97>>

\* the last call, made with assertions enabled, read a fixed number of bytes
\* at an offset that was omitted or an integer
CheckedFixedRead ==
  /\ ~noAssert
  /\ last.op \in {"read", "readInt8", "readUInt16BE", "readInt32LE", "readInt64LE"}
  /\ IsUndefined(last.offset) \/ IsInteger(last.offset)

\* the bytes [LastStart, LastEnd) do not lie inside the store
OutOfBounds == LastStart < 0 \/ LastEnd > OldCapacity

\* C24 as the claim states it: with assertions enabled an out-of-bounds
\* access is reported with a range error and a type error is raised only for
\* an argument that is not an integer or has the wrong type; read(length,
\* offset) with integer arguments and offset + length > capacity raises a
\* range error.
C24_RangeErrors ==
  /\ (CheckedFixedRead /\ OutOfBounds) => last.err = "RangeError"
  /\ CheckedFixedRead => last.err # "TypeError"

\* what the calls do: the fixed-width reads raise a range error, read raises
\* a type error
C24_ReadRaisesTypeError ==
  (CheckedFixedRead /\ OutOfBounds) =>
     last.err = IF last.op = "read" THEN "TypeError" ELSE "RangeError"

\* the reads of a fixed number of bytes, and the reads that scan the store
\* byte by byte until the value ends
FixedWidthReads == {"readInt8", "readUInt16BE", "readInt32LE", "readInt64LE"}
ScanningReads == {"readCString", "readString", "readVarint64"}

\* the last call, made with assertions enabled and without an offset, is one
\* of these reads and failed because the store ended before the value did
FailedRelativeRead ==
  /\ ~noAssert
  /\ IsUndefined(last.offset)
  /\ last.err = "RangeError"
  /\ \/ last.op \in FixedWidthReads \cup {"readCString", "readVarint64"}
     \/ last.op = "readString" /\ last.args[2] = METRICS_CHARS

\* C25 as the claim states it: when a relative multi-byte decode fails
\* partway, roffset is left where the failing read stopped: it is not moved
\* past the last byte examined, that is not beyond the end of the store, a
\* scan that examined bytes is not rolled back to its start, and woffset is
\* unchanged.
C25_FailedReadStops ==
  FailedRelativeRead =>
    /\ woffset = old.woffset
    /\ roffset >= old.roffset
    /\ roffset <= Max(old.roffset, Len(buffer))
    /\ (last.op \in ScanningReads /\ old.roffset < Len(buffer)) => roffset > old.roffset

\* what the calls do: a fixed-width read has moved roffset by its width
\* before it fails, the scanning reads fail with roffset at their start
C25_FailedReadCursor ==
  FailedRelativeRead =>
    /\ woffset = old.woffset
    /\ roffset = IF last.op \in FixedWidthReads THEN old.roffset + last.n ELSE old.roffset

\* the writes documented to return the number of bytes written when they are
\* given an offset
CountingWrites ==
  {"writeVarint32", "writeVarint32ZigZag", "writeString", "writeCString", "writeVString",
   "writeBitSet"}

\* the last call is one of them, was given an integer offset and returned;
\* a string written by writeCString holds no NUL
CountingWrite ==
  /\ last.op \in CountingWrites
  /\ IsInteger(last.offset)
  /\ last.err = "none"
  /\ last.n > 0
  /\ last.op = "writeCString" => ~HasNul(last.args[1].s)

\* the length the matching read at the same offset reports, for the reads
\* that report one
ReadBackLength ==
  LET off == last.offset
  IN CASE last.op = "writeCString" -> readCString(Entry(0), off).ret.length
       [] last.op = "writeVString" -> readVString(Entry(0), off).ret.length
       [] last.op \in {"writeVarint32", "writeVarint32ZigZag"} ->
            readVarint32(Entry(0), off).ret.length
       [] OTHER -> last.ret.n

\* C26 as the claim states it: a write given an explicit offset returns the
\* number of bytes it stored, so that the next free position is offset plus
\* the returned value, and the matching read at that offset reports the same
\* length; for writeCString the count includes the terminating NUL.
C26_ReturnsByteCount ==
  CountingWrite =>
    /\ last.ret = Num(last.n)
    /\ ReadBackLength = last.ret.n

\* what the calls do: all of them but writeCString return the bytes stored;
\* writeCString returns the length of the string without the NUL it stored
C26_CStringReturnsLength ==
  CountingWrite =>
    /\ last.ret = Num(IF last.op = "writeCString" THEN last.n - 1 ELSE last.n)
    /\ ReadBackLength = last.n

\* the last call was toArrayBuffer and it returned
ToArrayBufferReturned == last.op = "toArrayBuffer" /\ last.err = "none"

\* C27 as the claim states it: toArrayBuffer() returns a fresh array of
\* woffset - roffset bytes whose byte i is the byte of the buffer at
\* roffset + i, whatever roffset is, and changes neither cursor nor the store.
C27_ToArrayBuffer ==
  ToArrayBufferReturned =>
    /\ Len(last.ret.bytes) = old.woffset - old.roffset
    /\ \A i \in 0..(Len(last.ret.bytes) - 1) :
          last.ret.bytes[i + 1] = Byte(old.buffer, old.roffset + i)
    /\ buffer = old.buffer /\ roffset = old.roffset /\ woffset = old.woffset

\* what the call does: the array has the length of the readable region and
\* holds the bytes of the store from offset 0 on
C27_ToArrayBufferFromZero ==
  ToArrayBufferReturned =>
    /\ Len(last.ret.bytes) = old.woffset - old.roffset
    /\ \A i \in 0..(Len(last.ret.bytes) - 1) :
          last.ret.bytes[i + 1] = ByteOr0(old.buffer, i)
    /\ buffer = old.buffer /\ roffset = old.roffset /\ woffset = old.woffset

\* the range of the copy call: begin defaults to roffset, end to woffset
CopyBegin == StartOf(last.args[1], old.roffset)
CopyEnd == StartOf(last.args[2], old.woffset)

\* the last call was copy and it returned a buffer
Copied == last.op = "copy" /\ last.err = "none"

\* the source is as it was
CopySourceKept ==
  buffer = old.buffer /\ roffset = old.roffset /\ woffset = old.woffset

\* C28 as the claim states it: copy(begin, end) returns a new buffer whose
\* readable region [roffset, woffset) holds exactly the source bytes
\* [begin, end), so that its length is end - begin, and leaves the bytes and
\* the cursors of the source unchanged.
C28_Copy ==
  Copied =>
    /\ last.ret.woffset - last.ret.roffset = CopyEnd - CopyBegin
    /\ Slice(last.ret.buffer, last.ret.roffset, last.ret.woffset)
         = Slice(old.buffer, CopyBegin, CopyEnd)
    /\ CopySourceKept

\* what the call does: the store of the new buffer holds the source bytes
\* [begin, end) and both its cursors are 0
C28_CopyStore ==
  Copied =>
    /\ last.ret.buffer = Slice(old.buffer, CopyBegin, CopyEnd)
    /\ last.ret.roffset = 0 /\ last.ret.woffset = 0
    /\ CopySourceKept

\* C29 as the claim states it: in every reachable state, the states with
\* roffset past woffset included, a copyTo that returns has moved no cursor
\* backwards: the source's roffset and the target's woffset are at least what
\* they were, the target's woffset is not negative, and the number of bytes
\* copied, sourceEnd - sourceStart, is not negative.
C29_CopyToForward ==
  CopyReturned =>
    /\ roffset >= old.roffset
    /\ other.woffset >= old.other.woffset
    /\ other.woffset >= 0
    /\ CopySourceEnd - CopySourceStart >= 0

\* what the call does when roffset is past woffset and no range is given:
\* both cursors move back by roffset - woffset
C29_CopyToBackwards ==
  (/\ CopyReturned
   /\ IsUndefined(last.args[2]) /\ IsUndefined(last.args[3]) /\ IsUndefined(last.args[4])
   /\ old.roffset > old.woffset) =>
     /\ roffset = old.woffset
     /\ other.woffset = old.other.woffset - (old.roffset - old.woffset)

\* the last call was prepend(src) with src the other SmartBuffer, and returned
PrependedBuffer == last.op = "prepend" /\ last.err = "none" /\ last.args = <<Other>>

\* where the prepended bytes end: the offset of the call, moved by the growth
\* of the store
PrependOffset == StartOf(last.offset, old.roffset) + (Len(buffer) - Len(old.buffer))

\* what a prepend that takes the n bytes [src.roffset, src.roffset + n) of its
\* source leaves: these bytes before the offset, the store grown by the
\* shortfall, the source's roffset moved by n
PrependTook(n) ==
  /\ other.roffset = old.other.roffset + n
  /\ Len(buffer) = Len(old.buffer) + Max(0, n - StartOf(last.offset, old.roffset))
  /\ Slice(buffer, PrependOffset - n, PrependOffset)
       = Slice(old.other.buffer, old.other.roffset, old.other.roffset + n)
  /\ IsUndefined(last.offset) => roffset = PrependOffset - n

\* C30 as the claim states it: prepend(src) takes from a SmartBuffer source
\* what write(src) takes, the readable region [src.roffset, src.woffset): it
\* inserts woffset - roffset bytes and none of the bytes of src at or beyond
\* src.woffset.
C30_PrependReadable ==
  PrependedBuffer => PrependTook(Max(0, old.other.woffset - old.other.roffset))

\* what the call does: it takes the bytes of src from src.roffset to the end
\* of its store
C30_PrependToCapacity ==
  PrependedBuffer => PrependTook(Max(0, Len(old.other.buffer) - old.other.roffset))

====
